---- MODULE Spec2Model ----
(***************************************************************************)
(* Model of the recipe store: RecipeRepository (src/src/repository.rs)     *)
(* over RecipeIndex (src/src/cache.rs) and the disk RecipeStorage          *)
(* (src/src/storage/disk.rs), with the title/filename utilities of         *)
(* src/src/parser/mod.rs.                                                  *)
(*                                                                         *)
(* Strings are sequences of one-character strings, so that slugs, paths    *)
(* and suffixes are computed the way the code computes them.               *)
(***************************************************************************)
EXTENDS Integers, Sequences, FiniteSets, TLC

(***************************************************************************)
(* Bounds                                                                  *)
(***************************************************************************)
\* create is offered only while the index holds fewer records than this
MaxDocs == 2
\* on the versioned backend a call is offered only while the history is shorter than this
MaxCommits == 2
\* storage calls that return an error, per behaviour
MaxErrors == 1
\* a path given to the category derivation has at most this many segments
MaxSegments == 5
\* storage calls made on a backend in one behaviour of the backend comparison
MaxCalls == 4
MaxTitleLen == 3

(***************************************************************************)
(* Characters and strings                                                  *)
(***************************************************************************)
LowerAlpha == <<"a","b","c","d","e","f","g","h","i","j","k","l","m",
                "n","o","p","q","r","s","t","u","v","w","x","y","z">>
UpperAlpha == <<"A","B","C","D","E","F","G","H","I","J","K","L","M",
                "N","O","P","Q","R","S","T","U","V","W","X","Y","Z">>
DigitChars == <<"0","1","2","3","4","5","6","7","8","9">>

Range(s) == { s[i] : i \in 1..Len(s) }

IndexIn(c, s) == CHOOSE i \in 1..Len(s) : s[i] = c

\* char::to_lowercase / char::to_uppercase on the ASCII letters
LowerOf(c) == IF c \in Range(UpperAlpha) THEN LowerAlpha[IndexIn(c, UpperAlpha)] ELSE c
UpperOf(c) == IF c \in Range(LowerAlpha) THEN UpperAlpha[IndexIn(c, LowerAlpha)] ELSE c

is_alphanumeric(c) == c \in Range(LowerAlpha) \cup Range(UpperAlpha) \cup Range(DigitChars)
is_whitespace(c) == c \in {" ", "\n", "\t"}

to_lowercase(s) == [i \in 1..Len(s) |-> LowerOf(s[i])]

starts_with(s, pre) == Len(s) >= Len(pre) /\ SubSeq(s, 1, Len(pre)) = pre
ends_with(s, suf) == Len(s) >= Len(suf) /\ SubSeq(s, Len(s) - Len(suf) + 1, Len(s)) = suf

\* str::contains: some window of s equals pat
contains(s, pat) == \E i \in 1..(Len(s) - Len(pat) + 1) : SubSeq(s, i, i + Len(pat) - 1) = pat

\* str::replace(from, to): left to right, non-overlapping
RECURSIVE replace(_, _, _)
replace(s, from, to) ==
    IF Len(s) < Len(from) THEN s
    ELSE IF SubSeq(s, 1, Len(from)) = from
         THEN to \o replace(SubSeq(s, Len(from) + 1, Len(s)), from, to)
         ELSE <<s[1]>> \o replace(Tail(s), from, to)

\* str::trim_matches(c)
RECURSIVE trim_start_matches(_, _)
trim_start_matches(s, cs) ==
    IF s # <<>> /\ s[1] \in cs THEN trim_start_matches(Tail(s), cs) ELSE s
RECURSIVE trim_end_matches(_, _)
trim_end_matches(s, cs) ==
    IF s # <<>> /\ s[Len(s)] \in cs THEN trim_end_matches(SubSeq(s, 1, Len(s) - 1), cs) ELSE s
trim_matches(s, cs) == trim_end_matches(trim_start_matches(s, cs), cs)
\* str::trim
trim(s) == trim_matches(s, {" ", "\n", "\t"})

\* str::split(sep): always at least one part
RECURSIVE split(_, _)
split(s, sep) ==
    IF \E i \in 1..Len(s) : s[i] = sep
    THEN LET i == CHOOSE j \in 1..Len(s) : s[j] = sep /\ \A k \in 1..(j - 1) : s[k] # sep
         IN <<SubSeq(s, 1, i - 1)>> \o split(SubSeq(s, i + 1, Len(s)), sep)
    ELSE <<s>>

\* [&str]::join(sep)
RECURSIVE join(_, _)
join(parts, sep) ==
    IF parts = <<>> THEN <<>>
    ELSE IF Len(parts) = 1 THEN parts[1]
    ELSE parts[1] \o <<sep>> \o join(Tail(parts), sep)

\* str::strip_suffix(suf).unwrap_or(s)
strip_suffix_or(s, suf) == IF ends_with(s, suf) THEN SubSeq(s, 1, Len(s) - Len(suf)) ELSE s

\* format!("{}", n) for a non-negative integer
RECURSIVE fmt_int(_)
fmt_int(n) == IF n < 10 THEN <<DigitChars[n + 1]>>
              ELSE fmt_int(n \div 10) \o <<DigitChars[(n % 10) + 1]>>

RECIPES == <<"r","e","c","i","p","e","s">>
COOK_EXT == <<".","c","o","o","k">>

(***************************************************************************)
(* Option<String>                                                          *)
(***************************************************************************)
None == [some |-> FALSE, val |-> <<>>]
Some(s) == [some |-> TRUE, val |-> s]

(***************************************************************************)
(* parser/mod.rs: filename utilities                                       *)
(***************************************************************************)
RECURSIVE collapse_hyphens(_)
collapse_hyphens(s) ==
    IF contains(s, <<"-","-">>) THEN collapse_hyphens(replace(s, <<"-","-">>, <<"-">>)) ELSE s

\* variant: the title is not converted to lowercase
generate_filename_cased(title) ==
    LET mapped == [i \in 1..Len(title) |->
                     IF is_alphanumeric(title[i]) \/ title[i] = "-" \/ title[i] = "."
                     THEN title[i]
                     ELSE "-"]
    IN trim_matches(collapse_hyphens(mapped), {"-"}) \o COOK_EXT

generate_filename(title) ==
    LET lower == to_lowercase(title)
        mapped == [i \in 1..Len(lower) |->
                     IF is_alphanumeric(lower[i]) \/ lower[i] = "-" \/ lower[i] = "."
                     THEN lower[i]
                     ELSE "-"]
    IN trim_matches(collapse_hyphens(mapped), {"-"}) \o COOK_EXT

should_rename_file(old_filename, new_title) == generate_filename(new_title) # old_filename

(***************************************************************************)
(* Recipe text.  A content is a sequence of tokens: the front matter       *)
(* delimiter `---`, a YAML `key: value` line, a run of body text, or       *)
(* blank space.  extract_recipe_title works on this token structure;       *)
(* the YAML and Cooklang parsers are external libraries.                   *)
(***************************************************************************)
Delim == [t |-> "delim", k |-> <<>>, v |-> <<>>]
KV(key, value) == [t |-> "kv", k |-> key, v |-> value]
Text(body) == [t |-> "text", k |-> <<>>, v |-> body]
Blank == [t |-> "blank", k |-> <<>>, v |-> <<>>]

TITLE_KEY == <<"t","i","t","l","e">>

\* body text the Cooklang parser reports an error for
BadBody == <<"!">>

Ok(v) == [ok |-> TRUE, val |-> v]
Err(e) == [ok |-> FALSE, val |-> e]

\* first position of the closing delimiter in `remaining`, 0 when there is none
find_delim(remaining) ==
    IF \E i \in 1..Len(remaining) : remaining[i] = Delim
    THEN CHOOSE i \in 1..Len(remaining) :
            remaining[i] = Delim /\ \A j \in 1..(i - 1) : remaining[j] # Delim
    ELSE 0

extract_recipe_title(content) ==
    LET trimmed == trim_matches(content, {Blank}) IN
    IF trimmed = <<>> THEN Err("Content is empty")
    ELSE IF trimmed[1] # Delim THEN Err("Missing YAML front matter")
    ELSE
      LET remaining == Tail(trimmed)
          pos == find_delim(remaining) IN
      IF pos = 0 THEN Err("Malformed YAML front matter")
      ELSE
        LET front == trim_matches(SubSeq(remaining, 1, pos - 1), {Blank}) IN
        \* serde_yaml: the block must be a mapping of key: value lines
        IF \E i \in 1..Len(front) : front[i].t # "kv" THEN Err("Invalid YAML front matter")
        ELSE IF front = <<>> THEN Err("YAML front matter must be a mapping")
        ELSE IF ~ \E i \in 1..Len(front) : to_lowercase(front[i].k) = TITLE_KEY
             THEN Err("Title field not found")
        ELSE
          LET i == CHOOSE n \in 1..Len(front) :
                      /\ to_lowercase(front[n].k) = TITLE_KEY
                      /\ \A m \in 1..(n - 1) : to_lowercase(front[m].k) # TITLE_KEY
              title == trim(front[i].v) IN
          IF title = <<>> THEN Err("Title field is empty") ELSE Ok(title)

\* The parsed structure keeps the name it was parsed under and the body text.
parse_recipe(content, name) ==
    IF \E i \in 1..Len(content) : content[i] = Text(BadBody)
    THEN Err("parse error")
    ELSE Ok([name |-> name,
             body |-> SelectSeq(content, LAMBDA tok : tok.t = "text")])

(***************************************************************************)
(* cache.rs                                                                *)
(***************************************************************************)
\* First 12 hex digits of SHA-256 of the path: a fingerprint of the path,
\* taken as collision-free.
generate_recipe_id(git_path) == <<"sha256">> \o git_path

CachedRecipe(id, path, name, category, parsed) ==
    [recipe_id |-> id, git_path |-> path, name |-> name,
     category |-> category, recipe |-> parsed]

\* map helpers (DashMap insert / remove)
MapPut(m, key, value) == [x \in DOMAIN m \cup {key} |-> IF x = key THEN value ELSE m[x]]
MapDel(m, key) == [x \in DOMAIN m \ {key} |-> m[x]]
EmptyMap == [x \in {} |-> 0]

(***************************************************************************)
(* repository.rs: path helpers                                             *)
(***************************************************************************)
\* format!("recipes/{}/{}", cat, filename) or format!("recipes/{}", filename)
\* variant: the category is left out of the path
format_git_path_root(filename, category) == RECIPES \o <<"/">> \o filename

format_git_path(filename, category) ==
    IF category.some
    THEN RECIPES \o <<"/">> \o category.val \o <<"/">> \o filename
    ELSE RECIPES \o <<"/">> \o filename

\* the candidate tried when the counter has the value `counter`
suffixed_git_path(filename, category, counter) ==
    LET base == strip_suffix_or(filename, COOK_EXT)
        new_filename == base \o <<"-">> \o fmt_int(counter) \o COOK_EXT
    IN format_git_path(new_filename, category)

extract_filename_from_path(git_path) ==
    LET parts == split(git_path, "/") IN parts[Len(parts)]

\* variant: a fixed two-level scheme, only the first segment after the root
extract_category_one_level(git_path) ==
    LET parts == split(git_path, "/") IN
    IF Len(parts) >= 3 /\ parts[1] = RECIPES THEN Some(parts[2]) ELSE None

extract_category_from_path(git_path) ==
    LET parts == split(git_path, "/") IN
    IF Len(parts) >= 3 /\ parts[1] = RECIPES
    THEN LET category_parts == SubSeq(parts, 2, Len(parts) - 1) IN
         IF category_parts # <<>> THEN Some(join(category_parts, "/")) ELSE None
    ELSE None

\* split_whitespace: the non-empty words between spaces
split_whitespace(s) == SelectSeq(split(s, " "), LAMBDA w : w # <<>>)

path_to_name(git_path) ==
    LET f == extract_filename_from_path(git_path)
        stem == IF ends_with(f, COOK_EXT) THEN strip_suffix_or(f, COOK_EXT) ELSE <<>>
        spaced == [i \in 1..Len(stem) |-> IF stem[i] = "-" THEN " " ELSE stem[i]]
        words == split_whitespace(spaced)
        capped == [i \in 1..Len(words) |-> <<UpperOf(words[i][1])>> \o Tail(words[i])]
    IN join(capped, " ")

(***************************************************************************)
(* storage/disk.rs: the file a relative path names.  repo_path.join(rel)   *)
(* is resolved by the filesystem, which ignores empty path components.     *)
(***************************************************************************)
fs_path(rel_path) == join(SelectSeq(split(rel_path, "/"), LAMBDA seg : seg # <<>>), "/")

(***************************************************************************)
(* Inputs                                                                  *)
(***************************************************************************)
TitleAb == <<"A","b">>
TitleCd == <<"C"," ","d">>
Body1 == <<"1">>
Body2 == <<"2">>

DocAb1 == <<Delim, KV(TITLE_KEY, TitleAb), Delim, Text(Body1)>>
\* the same title written differently, and another body
DocAb2 == <<Blank, Delim, KV(<<"T","i","t","l","e">>, <<" ","A","b"," ">>), Delim, Text(Body2)>>
DocCd1 == <<Delim, KV(TITLE_KEY, TitleCd), Delim, Text(Body1)>>

NoFrontMatter == <<Text(Body1)>>
Unclosed == <<Delim, KV(TITLE_KEY, TitleAb), Text(Body1)>>
NoTitle == <<Delim, KV(<<"d">>, TitleAb), Delim, Text(Body1)>>
EmptyTitle == <<Delim, KV(TITLE_KEY, <<" ">>), Delim, Text(Body1)>>
Rejected == <<Delim, KV(TITLE_KEY, TitleAb), Delim, Text(BadBody)>>

ValidContents == {DocAb1, DocAb2, DocCd1}
InvalidContents == {NoFrontMatter, Unclosed, NoTitle, EmptyTitle, Rejected}
Contents == ValidContents \cup InvalidContents

CatX == <<"x">>
Categories == {None, Some(CatX), Some(<<>>)}

\* category argument of update: Option<Option<&str>>
NotGiven == [given |-> FALSE, cat |-> None]
Given(c) == [given |-> TRUE, cat |-> c]

\* the (name, content, category) arguments update is called with
UpdateArg(name, content, category) == [name |-> name, content |-> content, category |-> category]
UpdateArgs ==
    \* new content only
    {UpdateArg(None, Some(c), NotGiven) : c \in Contents}
    \* category only (including an explicit "no category")
    \cup {UpdateArg(None, None, Given(c)) : c \in Categories}
    \* new content and a category
    \cup {UpdateArg(None, Some(DocCd1), Given(Some(CatX))),
          UpdateArg(None, Some(DocAb2), Given(Some(CatX)))}
    \* the name argument, without content
    \cup {UpdateArg(Some(TitleCd), None, NotGiven)}
    \* nothing at all
    \cup {UpdateArg(None, None, NotGiven)}

\* what the storage directory holds when the repository is constructed
InitFiles == { EmptyMap }

Procs == {1, 2}

(***************************************************************************)
(* State                                                                   *)
(***************************************************************************)
VARIABLES
    recipes,      \* RecipeIndex.recipes: git_path -> CachedRecipe
    id_to_path,   \* RecipeIndex.id_to_path: recipe_id -> git_path
    files,        \* the storage directory: file -> content
    pc,           \* per caller: where it is inside its repository call
    loc,          \* per caller: the local variables of the call
    call,         \* per caller: the call being made (or made last)
    res,          \* per caller: what the last completed call returned
    pre,          \* per caller: index and storage when the call started
    ev,           \* per caller: storage calls and index mutations of the call
    created,      \* the record returned by the create that completed last,
                  \* while nothing but one read has been called since
    repo,         \* the storage backend: which one, and for the versioned one the
                  \* mutex holder, the staged paths and the commit history
    all_ok        \* every repository call so far has returned Ok

vars == <<recipes, id_to_path, files, pc, loc, call, res, pre, ev, created, repo, all_ok>>

NoRecipe == CachedRecipe(<<>>, <<>>, <<>>, None, [name |-> <<>>, body |-> <<>>])

LocInit == [current |-> NoRecipe, current_content |-> <<>>,
            new_title |-> <<>>, new_category |-> None, new_filename |-> <<>>,
            path |-> <<>>, counter |-> 0, file_content |-> <<>>,
            cached |-> NoRecipe, removed |-> NoRecipe, todo |-> {}]

Call(op, git_path, name, content, category) ==
    [op |-> op, git_path |-> git_path, name |-> name, content |-> content,
     category |-> category]
NoCall == Call("none", <<>>, None, None, NotGiven)

\* Result<Recipe>: the Recipe fields are blank for an error and for ()
Result(op, status, err, git_path, file_name, name, category, content) ==
    [op |-> op, status |-> status, err |-> err, git_path |-> git_path,
     file_name |-> file_name, name |-> name, category |-> category,
     content |-> content]
NoResult == Result("none", "none", "", <<>>, <<>>, <<>>, None, <<>>)
Failure(op, err) == Result(op, "err", err, <<>>, <<>>, <<>>, None, <<>>)
Unit(op) == Result(op, "ok", "", <<>>, <<>>, <<>>, None, <<>>)

NoCreated == [valid |-> FALSE, git_path |-> <<>>, content |-> <<>>,
              name |-> <<>>, category |-> None]

\* the storage behind the repository: the backend and, for the versioned one,
\* who holds the mutex, the staged paths and the commits (HEAD is the last)
Commit(parent, tree, message) == [parent |-> parent, tree |-> tree, message |-> message]

\* DiskStorage::new / GitStorage::new over a directory without a .git
DiskRepo == [backend |-> "disk", lock |-> 0, staged |-> {}, commits |-> <<>>, errors |-> 0]
GitRepo == [backend |-> "git", lock |-> 0, staged |-> {}, commits |-> <<>>, errors |-> 0]

Snapshot == [recipes |-> recipes, id_to_path |-> id_to_path, files |-> files, repo |-> repo]

Event(e, path) == [e |-> e, path |-> path]

\* with_storage over one of `stores` (a directory and the backend opened on it):
\* storage opened, empty index, rebuild_from_storage entered
InitOver(stores) ==
    /\ \E st \in stores : files = st.files /\ repo = st.repo
    /\ recipes = EmptyMap
    /\ id_to_path = EmptyMap
    /\ pc = [p \in Procs |-> IF p = 1 THEN "b_clear1" ELSE "idle"]
    /\ loc = [p \in Procs |-> LocInit]
    /\ call = [p \in Procs |-> IF p = 1 THEN Call("rebuild", <<>>, None, None, NotGiven)
                                        ELSE NoCall]
    /\ res = [p \in Procs |-> NoResult]
    /\ pre = [p \in Procs |-> [recipes |-> EmptyMap, id_to_path |-> EmptyMap,
                               files |-> files, repo |-> repo]]
    /\ ev = [p \in Procs |-> <<>>]
    /\ created = NoCreated
    /\ all_ok = TRUE

\* the plain backend over each directory of InitFiles
Init == InitOver({[files |-> fs, repo |-> DiskRepo] : fs \in InitFiles})

(***************************************************************************)
(* Entering and leaving a call                                             *)
(***************************************************************************)
\* bookkeeping common to every call entry
Enter(p, c) ==
    /\ pc[p] = "idle"
    /\ call' = [call EXCEPT ![p] = c]
    /\ pre' = [pre EXCEPT ![p] = Snapshot]
    /\ created' = IF c.op = "read" THEN created ELSE NoCreated

\* the call returns r
Return(p, r) ==
    /\ pc' = [pc EXCEPT ![p] = "returned"]
    /\ loc' = [loc EXCEPT ![p] = LocInit]
    /\ res' = [res EXCEPT ![p] = r]
    /\ all_ok' = (all_ok /\ r.status = "ok")

\* the call is under way: nothing has been returned yet
Pending(p) == res' = [res EXCEPT ![p] = NoResult] /\ UNCHANGED all_ok

Goto(p, label) == pc' = [pc EXCEPT ![p] = label]

Log(p, e) == ev' = [ev EXCEPT ![p] = Append(@, e)]

\* the caller has taken the result and is ready for its next call
Resume(p) ==
    /\ pc[p] = "returned"
    /\ pc' = [pc EXCEPT ![p] = "idle"]
    /\ call' = [call EXCEPT ![p] = NoCall]
    /\ res' = [res EXCEPT ![p] = NoResult]
    /\ pre' = [pre EXCEPT ![p] = [recipes |-> EmptyMap, id_to_path |-> EmptyMap,
                                   files |-> EmptyMap, repo |-> DiskRepo]]
    /\ ev' = [ev EXCEPT ![p] = <<>>]
    /\ created' = IF call[p].op = "create" /\ res[p].status = "ok" THEN created ELSE NoCreated
    /\ UNCHANGED <<recipes, id_to_path, files, repo, loc, all_ok>>

(***************************************************************************)
(* storage/disk.rs                                                         *)
(***************************************************************************)
\* variant: the content is trimmed before it is written
write_file_trimmed(fs, rel_path, content) ==
    MapPut(fs, fs_path(rel_path), trim_matches(content, {Blank}))

write_file(fs, rel_path, content) == MapPut(fs, fs_path(rel_path), content)

file_exists(fs, rel_path) == fs_path(rel_path) \in DOMAIN fs

read_file(fs, rel_path) ==
    IF file_exists(fs, rel_path) THEN Ok(fs[fs_path(rel_path)]) ELSE Err("Io")

\* variant: the file is left where it is
delete_file_kept(fs, rel_path) == fs

delete_file(fs, rel_path) ==
    IF file_exists(fs, rel_path) THEN MapDel(fs, fs_path(rel_path)) ELSE fs

discover_files(fs) == { f \in DOMAIN fs : ends_with(f, COOK_EXT) }

(***************************************************************************)
(* storage/git.rs and git.rs: the versioned backend.  The working tree is  *)
(* `files`; `repo` keeps the mutex holder, the staged paths (the git       *)
(* index) and the commit history, HEAD being the last commit.              *)
(***************************************************************************)
\* repo.head(): the position of the HEAD commit in the history, 0 when there is none
head(r) == Len(r.commits)

\* index.add_path(rel_path); index.write()
index_add(r, rel_path) == [r EXCEPT !.staged = @ \cup {fs_path(rel_path)}]

\* index.remove_path(rel_path); index.write()
index_remove(r, rel_path) == [r EXCEPT !.staged = @ \ {fs_path(rel_path)}]

\* index.write_tree() .. repo.commit(Some("HEAD"), .., &tree, &parents)
commit(r, message) ==
    [r EXCEPT !.commits = Append(@, Commit(head(r), r.staged, message))]

\* variant: the path is staged and no commit is made
commit_file_staged_only(r, rel_path, message) == index_add(r, rel_path)

\* commit_file: parents are the HEAD commit, or none for the first commit
commit_file(r, rel_path, message) == commit(index_add(r, rel_path), message)

\* git::delete_file: `repo.head()?` returns an error when there is no commit yet
delete_has_head(r) == head(r) > 0

git_delete_file(r, rel_path, message) ==
    IF delete_has_head(r)
    THEN commit(index_remove(r, rel_path), message)
    ELSE index_remove(r, rel_path)

(***************************************************************************)
(* storage/mod.rs: the backend behind Box<dyn RecipeStorage>.  What a      *)
(* storage call does to `repo`; what it does to the working tree is        *)
(* write_file / delete_file above on either backend.                       *)
(***************************************************************************)
storage_write(r, rel_path) ==
    IF r.backend = "git"
    THEN commit_file(r, rel_path, <<"Update recipe", rel_path>>)
    ELSE r

storage_delete(r, rel_path) ==
    IF r.backend = "git"
    THEN git_delete_file(r, rel_path, <<"Delete recipe", rel_path>>)
    ELSE r

\* whether delete_file returns Ok
storage_delete_ok(r) == r.backend = "git" => delete_has_head(r)

(***************************************************************************)
(* cache.rs: RecipeIndex::insert and remove, one map operation per step    *)
(***************************************************************************)
cache_get(git_path) == IF git_path \in DOMAIN recipes THEN Some(recipes[git_path]) ELSE None

\* what the call does once cache.insert has returned
AfterInsert(p) ==
    IF call[p].op = "rebuild"
    THEN /\ Goto(p, "b_file")
         /\ loc' = [loc EXCEPT ![p].cached = NoRecipe]
         /\ UNCHANGED <<res, all_ok, created>>
    ELSE /\ Return(p, Result(call[p].op, "ok", "", loc[p].path, loc[p].new_filename,
                             loc[p].new_title, loc[p].new_category, loc[p].file_content))
         /\ created' = IF call[p].op = "create"
                       THEN [valid |-> TRUE, git_path |-> loc[p].path,
                             content |-> call[p].content.val,
                             name |-> loc[p].new_title, category |-> loc[p].new_category]
                       ELSE created

\* self.recipes.insert(git_path.clone(), recipe)
IndexInsert1(p) ==
    /\ pc[p] = "insert1"
    /\ recipes' = MapPut(recipes, loc[p].cached.git_path, loc[p].cached)
    /\ Log(p, Event("recipes_insert", loc[p].cached.git_path))
    /\ Goto(p, "insert2")
    /\ UNCHANGED <<id_to_path, files, repo, loc, call, res, all_ok, pre, created>>

\* variant: the reverse map is not told of the inserted record
IndexInsert2_forward_only(p) ==
    /\ pc[p] = "insert2"
    /\ Log(p, Event("ids_insert", loc[p].cached.git_path))
    /\ AfterInsert(p)
    /\ UNCHANGED <<recipes, id_to_path, files, repo, call, pre>>

\* self.id_to_path.insert(recipe_id, git_path)
IndexInsert2(p) ==
    /\ pc[p] = "insert2"
    /\ id_to_path' = MapPut(id_to_path, loc[p].cached.recipe_id, loc[p].cached.git_path)
    /\ Log(p, Event("ids_insert", loc[p].cached.git_path))
    /\ AfterInsert(p)
    /\ UNCHANGED <<recipes, files, repo, call, pre>>

\* what the call does once cache.remove has returned
AfterRemove(p) ==
    IF call[p].op = "delete"
    THEN Return(p, Unit("delete"))
    ELSE /\ Goto(p, "insert1")
         /\ UNCHANGED <<loc, res, all_ok>>

\* self.recipes.remove(git_path)
IndexRemove1(p) ==
    /\ pc[p] = "remove1"
    /\ Log(p, Event("recipes_remove", call[p].git_path))
    /\ IF call[p].git_path \in DOMAIN recipes
       THEN /\ recipes' = MapDel(recipes, call[p].git_path)
            /\ loc' = [loc EXCEPT ![p].removed = recipes[call[p].git_path]]
            /\ Goto(p, "remove2")
            /\ UNCHANGED <<res, all_ok>>
       ELSE /\ UNCHANGED recipes
            /\ AfterRemove(p)
    /\ UNCHANGED <<id_to_path, files, repo, call, pre, created>>

\* variant: the reverse map keeps the id of the removed record
IndexRemove2_keep_id(p) ==
    /\ pc[p] = "remove2"
    /\ Log(p, Event("ids_remove", loc[p].removed.git_path))
    /\ AfterRemove(p)
    /\ UNCHANGED <<recipes, id_to_path, files, repo, call, pre, created>>

\* self.id_to_path.remove(&recipe.recipe_id)
IndexRemove2(p) ==
    /\ pc[p] = "remove2"
    /\ id_to_path' = MapDel(id_to_path, loc[p].removed.recipe_id)
    /\ Log(p, Event("ids_remove", loc[p].removed.git_path))
    /\ AfterRemove(p)
    /\ UNCHANGED <<recipes, files, repo, call, pre, created>>

(***************************************************************************)
(* repository.rs: generate_git_path_from_filename, one cache lookup per    *)
(* step.  loc.path is the candidate, loc.counter the next suffix.          *)
(***************************************************************************)
\* variant: no candidate is ever considered taken
path_taken_never(path) == FALSE

\* while self.cache.get(&path).is_some()
path_taken(path) == cache_get(path).some

\* where update goes once the target path is known
AfterTarget(p, new_git_path) ==
    IF call[p].content.some \/ new_git_path # call[p].git_path
    THEN "u_write" ELSE "u_reread"

\* variant: the counter is not advanced
GenerateGitPath_same_counter(p) ==
    /\ pc[p] \in {"c_gen", "u_gen"}
    /\ IF path_taken(loc[p].path)
       THEN /\ loc' = [loc EXCEPT
                         ![p].path = suffixed_git_path(loc[p].new_filename,
                                                       loc[p].new_category,
                                                       loc[p].counter)]
            /\ UNCHANGED pc
       ELSE /\ Goto(p, IF pc[p] = "c_gen" THEN "c_write" ELSE AfterTarget(p, loc[p].path))
            /\ UNCHANGED loc
    /\ UNCHANGED <<recipes, id_to_path, files, repo, call, res, all_ok, pre, ev, created>>

GenerateGitPath(p) ==
    /\ pc[p] \in {"c_gen", "u_gen"}
    /\ IF path_taken(loc[p].path)
       THEN /\ loc' = [loc EXCEPT
                         ![p].path = suffixed_git_path(loc[p].new_filename,
                                                       loc[p].new_category,
                                                       loc[p].counter),
                         ![p].counter = @ + 1]
            /\ UNCHANGED pc
       ELSE /\ Goto(p, IF pc[p] = "c_gen" THEN "c_write" ELSE AfterTarget(p, loc[p].path))
            /\ UNCHANGED loc
    /\ UNCHANGED <<recipes, id_to_path, files, repo, call, res, all_ok, pre, ev, created>>

(***************************************************************************)
(* create_with_author_and_comment.  The `name` argument is never read.     *)
(***************************************************************************)
\* variant: the body is not validated before the write
CallCreate_unvalidated(p, content, category) ==
    /\ Cardinality(DOMAIN recipes) < MaxDocs
    /\ Enter(p, Call("create", <<>>, None, Some(content), Given(category)))
    /\ ev' = [ev EXCEPT ![p] = <<>>]
    /\ LET recipe_title == extract_recipe_title(content) IN
       IF ~ recipe_title.ok
       THEN Return(p, Failure("create", "Validation"))
       ELSE LET filename == generate_filename(recipe_title.val) IN
            /\ loc' = [loc EXCEPT ![p] =
                         [LocInit EXCEPT !.new_title = recipe_title.val,
                                         !.new_filename = filename,
                                         !.new_category = category,
                                         !.path = format_git_path(filename, category),
                                         !.counter = 2,
                                         !.file_content = content]]
            /\ Goto(p, "c_gen")
            /\ Pending(p)
    /\ UNCHANGED <<recipes, id_to_path, files, repo>>

CallCreate(p, content, category) ==
    /\ Cardinality(DOMAIN recipes) < MaxDocs
    /\ Enter(p, Call("create", <<>>, None, Some(content), Given(category)))
    /\ ev' = [ev EXCEPT ![p] = <<>>]
    /\ LET recipe_title == extract_recipe_title(content) IN
       IF ~ recipe_title.ok \/ ~ parse_recipe(content, recipe_title.val).ok
       THEN Return(p, Failure("create", "Validation"))
       ELSE LET filename == generate_filename(recipe_title.val) IN
            /\ loc' = [loc EXCEPT ![p] =
                         [LocInit EXCEPT !.new_title = recipe_title.val,
                                         !.new_filename = filename,
                                         !.new_category = category,
                                         !.path = format_git_path(filename, category),
                                         !.counter = 2,
                                         !.file_content = content]]
            /\ Goto(p, "c_gen")
            /\ Pending(p)
    /\ UNCHANGED <<recipes, id_to_path, files, repo>>

\* self.storage.write_file(&git_path, content), then the record is built
CreateWrite(p) ==
    /\ pc[p] = "c_write"
    /\ files' = write_file(files, loc[p].path, call[p].content.val)
    /\ repo' = storage_write(repo, loc[p].path)
    /\ Log(p, Event("write", loc[p].path))
    /\ LET parsed == parse_recipe(call[p].content.val, loc[p].new_title) IN
       IF ~ parsed.ok
       THEN Return(p, Failure("create", "Validation"))
       ELSE /\ loc' = [loc EXCEPT ![p].cached =
                         CachedRecipe(generate_recipe_id(loc[p].path), loc[p].path,
                                      loc[p].new_title, loc[p].new_category, parsed.val)]
            /\ Goto(p, "insert1")
            /\ UNCHANGED <<res, all_ok>>
    /\ UNCHANGED <<recipes, id_to_path, call, pre, created>>

(***************************************************************************)
(* read                                                                    *)
(***************************************************************************)
\* variant: the index is not consulted before storage is read
CallRead_unchecked(p, git_path) ==
    /\ Enter(p, Call("read", git_path, None, None, NotGiven))
    /\ ev' = [ev EXCEPT ![p] = <<>>]
    /\ loc' = [loc EXCEPT ![p] = LocInit]
    /\ Goto(p, "r_read")
    /\ Pending(p)
    /\ UNCHANGED <<recipes, id_to_path, files, repo>>

CallRead(p, git_path) ==
    /\ Enter(p, Call("read", git_path, None, None, NotGiven))
    /\ ev' = [ev EXCEPT ![p] = <<>>]
    /\ LET cached == cache_get(git_path) IN
       IF ~ cached.some
       THEN Return(p, Failure("read", "NotFound"))
       ELSE /\ loc' = [loc EXCEPT ![p] = [LocInit EXCEPT !.current = cached.val]]
            /\ Goto(p, "r_read")
            /\ Pending(p)
    /\ UNCHANGED <<recipes, id_to_path, files, repo>>

\* variant: a record whose file cannot be read is dropped from the index
ReadFile_evict(p) ==
    /\ pc[p] = "r_read"
    /\ Log(p, Event("read", call[p].git_path))
    /\ LET content == read_file(files, call[p].git_path)
           cached == loc[p].current IN
       IF ~ content.ok
       THEN /\ Return(p, Failure("read", "Io"))
            /\ recipes' = MapDel(recipes, call[p].git_path)
       ELSE /\ Return(p, Result("read", "ok", "", cached.git_path,
                                extract_filename_from_path(call[p].git_path),
                                cached.name, cached.category, content.val))
            /\ UNCHANGED recipes
    /\ UNCHANGED <<id_to_path, files, repo, call, pre, created>>

ReadFile(p) ==
    /\ pc[p] = "r_read"
    /\ Log(p, Event("read", call[p].git_path))
    /\ LET content == read_file(files, call[p].git_path)
           cached == loc[p].current IN
       IF ~ content.ok
       THEN Return(p, Failure("read", "Io"))
       ELSE Return(p, Result("read", "ok", "", cached.git_path,
                             extract_filename_from_path(call[p].git_path),
                             cached.name, cached.category, content.val))
    /\ UNCHANGED <<recipes, id_to_path, files, repo, call, pre, created>>

(***************************************************************************)
(* delete_with_author_and_comment                                          *)
(***************************************************************************)
CallDelete(p, git_path) ==
    /\ Enter(p, Call("delete", git_path, None, None, NotGiven))
    /\ ev' = [ev EXCEPT ![p] = <<>>]
    /\ IF ~ cache_get(git_path).some
       THEN Return(p, Failure("delete", "NotFound"))
       ELSE /\ Goto(p, "d_delete")
            /\ Pending(p)
            /\ UNCHANGED loc
    /\ UNCHANGED <<recipes, id_to_path, files, repo>>

DeleteFile(p) ==
    /\ pc[p] = "d_delete"
    /\ files' = delete_file(files, call[p].git_path)
    /\ repo' = storage_delete(repo, call[p].git_path)
    /\ Log(p, Event("delete", call[p].git_path))
    /\ IF storage_delete_ok(repo)
       THEN /\ Goto(p, "remove1")
            /\ UNCHANGED <<loc, res, all_ok>>
       ELSE Return(p, Failure("delete", "Vcs"))
    /\ UNCHANGED <<recipes, id_to_path, call, pre, created>>

(***************************************************************************)
(* update_with_author_and_comment                                          *)
(***************************************************************************)
CallUpdate(p, git_path, name, content, category) ==
    /\ Enter(p, Call("update", git_path, name, content, category))
    /\ ev' = [ev EXCEPT ![p] = <<>>]
    /\ LET current == cache_get(git_path) IN
       IF ~ current.some
       THEN Return(p, Failure("update", "NotFound"))
       ELSE /\ loc' = [loc EXCEPT ![p] = [LocInit EXCEPT !.current = current.val]]
            /\ Goto(p, "u_read")
            /\ Pending(p)
    /\ UNCHANGED <<recipes, id_to_path, files, repo>>

\* Priority: extracted title from new content, provided name, current name
new_title_of(content, name, current) ==
    IF content.some THEN extract_recipe_title(content.val)
    ELSE IF name.some THEN Ok(name.val)
    ELSE Ok(current.name)

\* variant: the category argument is ignored
new_category_of_current(category, current) == current.category

\* variant: an explicit "no category" is taken at its word
new_category_of_explicit(category, current) ==
    IF category.given THEN category.cat ELSE current.category

\* category.as_ref().copied().flatten().or(current.category.as_deref())
new_category_of(category, current) ==
    IF category.given /\ category.cat.some THEN category.cat ELSE current.category

\* filename_changed || category_changed
rename_needed(git_path, new_title, new_category, current) ==
    LET old_filename == extract_filename_from_path(git_path)
        filename_changed == should_rename_file(old_filename, new_title)
        category_changed == new_category # current.category
    IN filename_changed \/ category_changed

\* read the current content, settle title and category, validate, and decide
\* whether a new path has to be generated
UpdateRead(p) ==
    /\ pc[p] = "u_read"
    /\ Log(p, Event("read", call[p].git_path))
    /\ LET c == call[p]
           current == loc[p].current
           current_content == read_file(files, c.git_path)
           new_title == new_title_of(c.content, c.name, current)
           new_category == new_category_of(c.category, current) IN
       IF ~ current_content.ok
       THEN Return(p, Failure("update", "Io"))
       ELSE IF ~ new_title.ok
       THEN Return(p, Failure("update", "Validation"))
       ELSE IF c.content.some /\ ~ parse_recipe(c.content.val, new_title.val).ok
       THEN Return(p, Failure("update", "Validation"))
       ELSE
         LET new_filename == generate_filename(new_title.val)
             rename == rename_needed(c.git_path, new_title.val, new_category, current)
             l == [loc[p] EXCEPT !.current_content = current_content.val,
                                 !.new_title = new_title.val,
                                 !.new_category = new_category,
                                 !.new_filename = new_filename] IN
         /\ UNCHANGED <<res, all_ok>>
         /\ IF rename
            THEN /\ loc' = [loc EXCEPT ![p] =
                              [l EXCEPT !.path = format_git_path(new_filename, new_category),
                                        !.counter = 2]]
                 /\ Goto(p, "u_gen")
            ELSE /\ loc' = [loc EXCEPT ![p] = [l EXCEPT !.path = c.git_path]]
                 /\ Goto(p, AfterTarget(p, c.git_path))
    /\ UNCHANGED <<recipes, id_to_path, files, repo, call, pre, created>>

\* self.storage.write_file(&new_git_path, &file_content)
UpdateWrite(p) ==
    /\ pc[p] = "u_write"
    /\ LET file_content == IF call[p].content.some THEN call[p].content.val
                           ELSE loc[p].current_content IN
       files' = write_file(files, loc[p].path, file_content)
    /\ repo' = storage_write(repo, loc[p].path)
    /\ Log(p, Event("write", loc[p].path))
    /\ Goto(p, IF loc[p].path # call[p].git_path THEN "u_delete" ELSE "u_reread")
    /\ UNCHANGED <<recipes, id_to_path, loc, call, res, all_ok, pre, created>>

\* self.storage.delete_file(git_path)
UpdateDelete(p) ==
    /\ pc[p] = "u_delete"
    /\ files' = delete_file(files, call[p].git_path)
    /\ repo' = storage_delete(repo, call[p].git_path)
    /\ Log(p, Event("delete", call[p].git_path))
    /\ IF storage_delete_ok(repo)
       THEN /\ Goto(p, "u_reread")
            /\ UNCHANGED <<loc, res, all_ok>>
       ELSE Return(p, Failure("update", "Vcs"))
    /\ UNCHANGED <<recipes, id_to_path, call, pre, created>>

\* variant: the new record is inserted without the old one being removed
UpdateReread_insert_only(p) ==
    /\ pc[p] = "u_reread"
    /\ Log(p, Event("read", loc[p].path))
    /\ LET new_git_path == loc[p].path
           file_content == read_file(files, new_git_path) IN
       IF ~ file_content.ok
       THEN Return(p, Failure("update", "Io"))
       ELSE
         LET parsed == parse_recipe(file_content.val, loc[p].new_title) IN
         IF ~ parsed.ok
         THEN Return(p, Failure("update", "Validation"))
         ELSE /\ loc' = [loc EXCEPT
                           ![p].file_content = file_content.val,
                           ![p].cached =
                              CachedRecipe(generate_recipe_id(new_git_path), new_git_path,
                                           loc[p].new_title, loc[p].new_category, parsed.val)]
              /\ Goto(p, "insert1")
              /\ UNCHANGED <<res, all_ok>>
    /\ UNCHANGED <<recipes, id_to_path, files, repo, call, pre, created>>

\* read the target back, parse it and build the record
UpdateReread(p) ==
    /\ pc[p] = "u_reread"
    /\ Log(p, Event("read", loc[p].path))
    /\ LET new_git_path == loc[p].path
           file_content == read_file(files, new_git_path) IN
       IF ~ file_content.ok
       THEN Return(p, Failure("update", "Io"))
       ELSE
         LET parsed == parse_recipe(file_content.val, loc[p].new_title) IN
         IF ~ parsed.ok
         THEN Return(p, Failure("update", "Validation"))
         ELSE /\ loc' = [loc EXCEPT
                           ![p].file_content = file_content.val,
                           ![p].cached =
                              CachedRecipe(generate_recipe_id(new_git_path), new_git_path,
                                           loc[p].new_title, loc[p].new_category, parsed.val)]
              /\ Goto(p, IF new_git_path # call[p].git_path THEN "remove1" ELSE "insert1")
              /\ UNCHANGED <<res, all_ok>>
    /\ UNCHANGED <<recipes, id_to_path, files, repo, call, pre, created>>

(***************************************************************************)
(* rebuild_from_storage                                                    *)
(***************************************************************************)
CallRebuild(p) ==
    /\ Enter(p, Call("rebuild", <<>>, None, None, NotGiven))
    /\ ev' = [ev EXCEPT ![p] = <<>>]
    /\ loc' = [loc EXCEPT ![p] = LocInit]
    /\ Goto(p, "b_clear1")
    /\ Pending(p)
    /\ UNCHANGED <<recipes, id_to_path, files, repo>>

\* self.recipes.clear()
RebuildClear1(p) ==
    /\ pc[p] = "b_clear1"
    /\ recipes' = EmptyMap
    /\ Log(p, Event("recipes_clear", <<>>))
    /\ Goto(p, "b_clear2")
    /\ UNCHANGED <<id_to_path, files, repo, loc, call, res, all_ok, pre, created>>

\* self.id_to_path.clear()
RebuildClear2(p) ==
    /\ pc[p] = "b_clear2"
    /\ id_to_path' = EmptyMap
    /\ Log(p, Event("ids_clear", <<>>))
    /\ Goto(p, "b_discover")
    /\ UNCHANGED <<recipes, files, repo, loc, call, res, all_ok, pre, created>>

\* self.storage.discover_files(); the order of the walk is unspecified
RebuildDiscover(p) ==
    /\ pc[p] = "b_discover"
    /\ loc' = [loc EXCEPT ![p].todo = discover_files(files)]
    /\ Log(p, Event("discover", <<>>))
    /\ Goto(p, "b_file")
    /\ UNCHANGED <<recipes, id_to_path, files, repo, call, res, all_ok, pre, created>>

\* variant: no fallback to the name derived from the path
rebuild_name_raw(content, git_path) ==
    LET title == extract_recipe_title(content) IN
    IF title.ok THEN title.val ELSE <<>>

\* the title a discovered file is indexed under
rebuild_name(content, git_path) ==
    LET title == extract_recipe_title(content) IN
    IF title.ok THEN title.val ELSE path_to_name(git_path)

\* variant: a file that does not parse ends the rebuild with its error
RebuildFile_abort_on_error(p) ==
    /\ pc[p] = "b_file"
    /\ IF loc[p].todo = {}
       THEN /\ Return(p, Unit("rebuild"))
            /\ UNCHANGED ev
       ELSE \E git_path \in loc[p].todo :
              LET content == read_file(files, git_path)
                  recipe_name == rebuild_name(content.val, git_path)
                  parsed == parse_recipe(content.val, recipe_name)
                  rest == loc[p].todo \ {git_path} IN
              /\ Log(p, Event("read", git_path))
              /\ IF content.ok /\ parsed.ok
                 THEN /\ loc' = [loc EXCEPT
                                   ![p].todo = rest,
                                   ![p].cached =
                                      CachedRecipe(generate_recipe_id(git_path), git_path,
                                                   recipe_name,
                                                   extract_category_from_path(git_path),
                                                   parsed.val)]
                      /\ Goto(p, "insert1")
                      /\ UNCHANGED <<res, all_ok>>
                 ELSE Return(p, Failure("rebuild", "Validation"))
    /\ UNCHANGED <<recipes, id_to_path, files, repo, call, pre, created>>

\* one iteration of `for git_path in cook_files`, up to the cache insert
RebuildFile(p) ==
    /\ pc[p] = "b_file"
    /\ IF loc[p].todo = {}
       THEN /\ Return(p, Unit("rebuild"))
            /\ UNCHANGED ev
       ELSE \E git_path \in loc[p].todo :
              LET content == read_file(files, git_path)
                  recipe_name == rebuild_name(content.val, git_path)
                  parsed == parse_recipe(content.val, recipe_name)
                  rest == loc[p].todo \ {git_path} IN
              /\ Log(p, Event("read", git_path))
              /\ UNCHANGED <<res, all_ok>>
              /\ IF content.ok /\ parsed.ok
                 THEN /\ loc' = [loc EXCEPT
                                   ![p].todo = rest,
                                   ![p].cached =
                                      CachedRecipe(generate_recipe_id(git_path), git_path,
                                                   recipe_name,
                                                   extract_category_from_path(git_path),
                                                   parsed.val)]
                      /\ Goto(p, "insert1")
                 ELSE /\ loc' = [loc EXCEPT ![p].todo = rest]
                      /\ UNCHANGED pc
    /\ UNCHANGED <<recipes, id_to_path, files, repo, call, pre, created>>

(***************************************************************************)
(* Storage calls that return an error.  std::fs::write creates or          *)
(* truncates the file before it writes, so a failed write leaves the       *)
(* directory as it was or leaves an empty file; on the versioned backend   *)
(* the call can also fail after the file is written or removed, before or  *)
(* after the path is staged, and never after the commit.                   *)
(***************************************************************************)
Store(fs, r) == [files |-> fs, repo |-> r]

\* repo.errors counts the storage calls that have returned an error
Failed(r) == [r EXCEPT !.errors = @ + 1]
MayFail == repo.errors < MaxErrors

write_failures(fs, r, rel_path, content) ==
    {Store(fs, Failed(r)), Store(write_file(fs, rel_path, <<>>), Failed(r))}
    \cup IF r.backend = "git"
         THEN {Store(write_file(fs, rel_path, content), Failed(r)),
               Store(write_file(fs, rel_path, content), Failed(index_add(r, rel_path)))}
         ELSE {}

delete_failures(fs, r, rel_path) ==
    {Store(fs, Failed(r))}
    \cup IF r.backend = "git"
         THEN {Store(delete_file(fs, rel_path), Failed(r)),
               Store(delete_file(fs, rel_path), Failed(index_remove(r, rel_path)))}
         ELSE {}

\* self.storage.write_file(&git_path, content)? returns the error
CreateWriteFails(p) ==
    /\ pc[p] = "c_write"
    /\ MayFail
    /\ \E o \in write_failures(files, repo, loc[p].path, call[p].content.val) :
          files' = o.files /\ repo' = o.repo
    /\ Log(p, Event("write_err", loc[p].path))
    /\ Return(p, Failure("create", "Io"))
    /\ UNCHANGED <<recipes, id_to_path, call, pre, created>>

\* self.storage.read_file(git_path)? returns the error
ReadFileFails(p) ==
    /\ pc[p] = "r_read"
    /\ MayFail
    /\ repo' = Failed(repo)
    /\ Log(p, Event("read_err", call[p].git_path))
    /\ Return(p, Failure("read", "Io"))
    /\ UNCHANGED <<recipes, id_to_path, files, call, pre, created>>

\* self.storage.delete_file(git_path)? returns the error
DeleteFileFails(p) ==
    /\ pc[p] = "d_delete"
    /\ MayFail
    /\ \E o \in delete_failures(files, repo, call[p].git_path) :
          files' = o.files /\ repo' = o.repo
    /\ Log(p, Event("delete_err", call[p].git_path))
    /\ Return(p, Failure("delete", "Io"))
    /\ UNCHANGED <<recipes, id_to_path, call, pre, created>>

UpdateReadFails(p) ==
    /\ pc[p] = "u_read"
    /\ MayFail
    /\ repo' = Failed(repo)
    /\ Log(p, Event("read_err", call[p].git_path))
    /\ Return(p, Failure("update", "Io"))
    /\ UNCHANGED <<recipes, id_to_path, files, call, pre, created>>

UpdateWriteFails(p) ==
    /\ pc[p] = "u_write"
    /\ MayFail
    /\ LET file_content == IF call[p].content.some THEN call[p].content.val
                           ELSE loc[p].current_content IN
       \E o \in write_failures(files, repo, loc[p].path, file_content) :
          files' = o.files /\ repo' = o.repo
    /\ Log(p, Event("write_err", loc[p].path))
    /\ Return(p, Failure("update", "Io"))
    /\ UNCHANGED <<recipes, id_to_path, call, pre, created>>

\* variant: the error of delete_file is dropped and the update carries on
UpdateDeleteFails_ignored(p) ==
    /\ pc[p] = "u_delete"
    /\ MayFail
    /\ \E o \in delete_failures(files, repo, call[p].git_path) :
          files' = o.files /\ repo' = o.repo
    /\ Log(p, Event("delete_err", call[p].git_path))
    /\ Goto(p, "u_reread")
    /\ UNCHANGED <<recipes, id_to_path, loc, res, all_ok, call, pre, created>>

UpdateDeleteFails(p) ==
    /\ pc[p] = "u_delete"
    /\ MayFail
    /\ \E o \in delete_failures(files, repo, call[p].git_path) :
          files' = o.files /\ repo' = o.repo
    /\ Log(p, Event("delete_err", call[p].git_path))
    /\ Return(p, Failure("update", "Io"))
    /\ UNCHANGED <<recipes, id_to_path, call, pre, created>>

UpdateRereadFails(p) ==
    /\ pc[p] = "u_reread"
    /\ MayFail
    /\ repo' = Failed(repo)
    /\ Log(p, Event("read_err", loc[p].path))
    /\ Return(p, Failure("update", "Io"))
    /\ UNCHANGED <<recipes, id_to_path, files, call, pre, created>>

\* self.storage.discover_files()? returns the error
RebuildDiscoverFails(p) ==
    /\ pc[p] = "b_discover"
    /\ MayFail
    /\ repo' = Failed(repo)
    /\ Log(p, Event("discover_err", <<>>))
    /\ Return(p, Failure("rebuild", "Io"))
    /\ UNCHANGED <<recipes, id_to_path, files, call, pre, created>>

\* Err(e) of `match self.storage.read_file(&git_path)`: the file is skipped
RebuildFileReadFails(p) ==
    /\ pc[p] = "b_file"
    /\ MayFail
    /\ repo' = Failed(repo)
    /\ \E git_path \in loc[p].todo :
          /\ Log(p, Event("read_err", git_path))
          /\ loc' = [loc EXCEPT ![p].todo = @ \ {git_path}]
    /\ UNCHANGED <<recipes, id_to_path, files, pc, call, res, all_ok, pre, created>>

(***************************************************************************)
(* Specification: one caller, one call at a time                           *)
(***************************************************************************)
\* the paths a caller may address
PathArgs == DOMAIN recipes \cup DOMAIN files
            \cup {format_git_path(generate_filename(TitleAb), None)}

Create(p) == \E content \in Contents, category \in Categories :
                CallCreate(p, content, category)
Read(p) == \E git_path \in PathArgs : CallRead(p, git_path)
Update(p) == \E git_path \in PathArgs, a \in UpdateArgs :
                CallUpdate(p, git_path, a.name, a.content, a.category)
Delete(p) == \E git_path \in PathArgs : CallDelete(p, git_path)

Step(p) ==
    \/ Create(p)
    \/ GenerateGitPath(p)
    \/ CreateWrite(p)
    \/ Read(p)
    \/ ReadFile(p)
    \/ Update(p)
    \/ UpdateRead(p)
    \/ UpdateWrite(p)
    \/ UpdateDelete(p)
    \/ UpdateReread(p)
    \/ Delete(p)
    \/ DeleteFile(p)
    \/ CallRebuild(p)
    \/ RebuildClear1(p)
    \/ RebuildClear2(p)
    \/ RebuildDiscover(p)
    \/ RebuildFile(p)
    \/ IndexInsert1(p)
    \/ IndexInsert2(p)
    \/ IndexRemove1(p)
    \/ IndexRemove2(p)
    \/ Resume(p)

Next == Step(1)

Spec == Init /\ [][Next]_vars

(***************************************************************************)
(* Specification with storage errors: one caller over either backend,      *)
(* where every storage call of create, read, update and delete may return  *)
(* an error.  The directory is empty or holds one document that is not     *)
(* committed yet.                                                          *)
(***************************************************************************)
AbPath == format_git_path(generate_filename(TitleAb), None)

FaultStores ==
    {Store(fs, r) : fs \in {EmptyMap, MapPut(EmptyMap, AbPath, DocAb1)},
                    r \in {DiskRepo, GitRepo}}

InitFault == InitOver(FaultStores)

FaultContents == {DocAb1}
FaultCategories == {None, Some(CatX)}
FaultUpdateArgs ==
    {UpdateArg(None, Some(DocCd1), NotGiven),
     UpdateArg(None, Some(DocAb2), NotGiven),
     UpdateArg(None, None, Given(Some(CatX))),
     UpdateArg(None, None, NotGiven)}

BelowMaxCommits == Len(repo.commits) < MaxCommits

CreateF(p) == /\ BelowMaxCommits
              /\ \E content \in FaultContents, category \in FaultCategories :
                    CallCreate(p, content, category)
ReadF(p) == BelowMaxCommits /\ \E git_path \in PathArgs : CallRead(p, git_path)
UpdateF(p) == /\ BelowMaxCommits
              /\ \E git_path \in PathArgs, a \in FaultUpdateArgs :
                    CallUpdate(p, git_path, a.name, a.content, a.category)
DeleteF(p) == BelowMaxCommits /\ \E git_path \in PathArgs : CallDelete(p, git_path)

StepFault(p) ==
    \/ CreateF(p)
    \/ GenerateGitPath(p)
    \/ CreateWrite(p)
    \/ CreateWriteFails(p)
    \/ ReadF(p)
    \/ ReadFile(p)
    \/ ReadFileFails(p)
    \/ UpdateF(p)
    \/ UpdateRead(p)
    \/ UpdateReadFails(p)
    \/ UpdateWrite(p)
    \/ UpdateWriteFails(p)
    \/ UpdateDelete(p)
    \/ UpdateDeleteFails(p)
    \/ UpdateReread(p)
    \/ UpdateRereadFails(p)
    \/ DeleteF(p)
    \/ DeleteFile(p)
    \/ DeleteFileFails(p)
    \/ RebuildClear1(p)
    \/ RebuildClear2(p)
    \/ RebuildDiscover(p)
    \/ RebuildFile(p)
    \/ IndexInsert1(p)
    \/ IndexInsert2(p)
    \/ IndexRemove1(p)
    \/ IndexRemove2(p)
    \/ Resume(p)

NextFault == StepFault(1)

SpecFault == InitFault /\ [][NextFault]_vars

(***************************************************************************)
(* Specification of rebuild: the repository is constructed over a          *)
(* directory that already holds files (valid documents, documents without  *)
(* a usable metadata block, a document the parser rejects, a file that is  *)
(* not a document), on either backend; afterwards documents are deleted    *)
(* and the index is rebuilt again.  Discovery and reads may fail.          *)
(***************************************************************************)
NoTitlePath == format_git_path(<<"n">> \o COOK_EXT, Some(CatX))
NoFrontMatterPath == format_git_path(<<"m">> \o COOK_EXT, None)
RejectedPath == format_git_path(<<"b">> \o COOK_EXT, None)
TextPath == RECIPES \o <<"/","a","b",".","t","x","t">>

FoundFiles ==
    {<<AbPath, DocAb1>>, <<NoTitlePath, NoTitle>>, <<NoFrontMatterPath, NoFrontMatter>>,
     <<RejectedPath, Rejected>>, <<TextPath, DocAb1>>}

FilesOf(found) == [k \in {f[1] : f \in found} |-> (CHOOSE f \in found : f[1] = k)[2]]

RebuildStores ==
    {Store(FilesOf(found), r) : found \in SUBSET FoundFiles, r \in {DiskRepo, GitRepo}}

InitRebuild == InitOver(RebuildStores)

DeleteR(p) == \E git_path \in DOMAIN recipes : CallDelete(p, git_path)

StepRebuild(p) ==
    \/ CallRebuild(p)
    \/ RebuildClear1(p)
    \/ RebuildClear2(p)
    \/ RebuildDiscover(p)
    \/ RebuildDiscoverFails(p)
    \/ RebuildFile(p)
    \/ RebuildFileReadFails(p)
    \/ DeleteR(p)
    \/ DeleteFile(p)
    \/ DeleteFileFails(p)
    \/ IndexInsert1(p)
    \/ IndexInsert2(p)
    \/ IndexRemove1(p)
    \/ IndexRemove2(p)
    \/ Resume(p)

NextRebuild == StepRebuild(1)

SpecRebuild == InitRebuild /\ [][NextRebuild]_vars

(***************************************************************************)
(* Specification of the category derivation: extract_category_from_path    *)
(* applied to paths of up to MaxSegments segments, each the root, a        *)
(* directory name, the empty segment or a filename.                        *)
(***************************************************************************)
CategorySegments == {RECIPES, <<"x">>, <<"y">>, <<>>, <<"f">> \o COOK_EXT}

CategoryPaths ==
    {join(parts, "/") : parts \in UNION {[1..n -> CategorySegments] : n \in 1..MaxSegments}}

ExtractCategory(p) ==
    \E git_path \in CategoryPaths :
        /\ Enter(p, Call("category", git_path, None, None, NotGiven))
        /\ ev' = [ev EXCEPT ![p] = <<>>]
        /\ Return(p, Result("category", "ok", "", git_path, <<>>, <<>>,
                            extract_category_from_path(git_path), <<>>))
        /\ UNCHANGED <<recipes, id_to_path, files, repo>>

InitCategory == InitOver({Store(EmptyMap, DiskRepo)})

StepCategory(p) ==
    \/ RebuildClear1(p)
    \/ RebuildClear2(p)
    \/ RebuildDiscover(p)
    \/ RebuildFile(p)
    \/ ExtractCategory(p)
    \/ Resume(p)

NextCategory == StepCategory(1)

SpecCategory == InitCategory /\ [][NextCategory]_vars

(***************************************************************************)
(* Specification of concurrent callers: the handlers share one             *)
(* RecipeRepository (Arc<RecipeRepository>) on a multi-threaded runtime,   *)
(* and the repository takes no lock around a call.  Once with_storage has  *)
(* returned, each caller runs create calls whose steps (every index lookup *)
(* of the path generation, the storage write, the two index inserts)       *)
(* interleave with the steps of the other caller.                          *)
(***************************************************************************)
ConcurrentStores == {Store(EmptyMap, DiskRepo), Store(EmptyMap, GitRepo)}
ConcurrentContents == {DocAb1, DocAb2, DocCd1}
ConcurrentCategories == {None, Some(CatX)}

\* with_storage has returned: the rebuild of the construction is over
Constructed == \A p \in Procs : call[p].op = "rebuild" => pc[p] \in {"idle", "returned"}

CreateC(p) ==
    /\ Constructed
    /\ \E content \in ConcurrentContents, category \in ConcurrentCategories :
          CallCreate(p, content, category)

InitConcurrent == InitOver(ConcurrentStores)

StepConcurrent(p) ==
    \/ RebuildClear1(p)
    \/ RebuildClear2(p)
    \/ RebuildDiscover(p)
    \/ RebuildFile(p)
    \/ CreateC(p)
    \/ GenerateGitPath(p)
    \/ CreateWrite(p)
    \/ IndexInsert1(p)
    \/ IndexInsert2(p)
    \/ Resume(p)

NextConcurrent == \E p \in Procs : StepConcurrent(p)

SpecConcurrent == InitConcurrent /\ [][NextConcurrent]_vars

(***************************************************************************)
(* Specification of concurrent callers on one document: the storage holds  *)
(* recipes/ab.cook when the repository is constructed, and once            *)
(* with_storage has returned two callers delete it, update it in place and *)
(* update it with another title, their steps interleaved.                  *)
(***************************************************************************)
TitleEf == <<"E","f">>
DocEf1 == <<Delim, KV(TITLE_KEY, TitleEf), Delim, Text(Body2)>>

RaceStores == {Store(MapPut(EmptyMap, AbPath, DocAb1), r) : r \in {DiskRepo, GitRepo}}

\* the contents the document is updated with: the same title, and two other titles
RaceContents == {DocAb2, DocCd1, DocEf1}

\* a call starts only while index and storage hold fewer than MaxDocs documents
BelowMaxDocs ==
    /\ Cardinality(DOMAIN recipes) < MaxDocs
    /\ Cardinality(DOMAIN files) < MaxDocs
    /\ BelowMaxCommits

DeleteRace(p) ==
    /\ Constructed
    /\ BelowMaxDocs
    /\ CallDelete(p, AbPath)

UpdateRace(p) ==
    /\ Constructed
    /\ BelowMaxDocs
    /\ \E content \in RaceContents : CallUpdate(p, AbPath, None, Some(content), NotGiven)

InitRace == InitOver(RaceStores)

StepRace(p) ==
    \/ RebuildClear1(p)
    \/ RebuildClear2(p)
    \/ RebuildDiscover(p)
    \/ RebuildFile(p)
    \/ DeleteRace(p)
    \/ DeleteFile(p)
    \/ UpdateRace(p)
    \/ UpdateRead(p)
    \/ GenerateGitPath(p)
    \/ UpdateWrite(p)
    \/ UpdateDelete(p)
    \/ UpdateReread(p)
    \/ IndexInsert1(p)
    \/ IndexInsert2(p)
    \/ IndexRemove1(p)
    \/ IndexRemove2(p)
    \/ Resume(p)

NextRace == \E p \in Procs : StepRace(p)

SpecRace == InitRace /\ [][NextRace]_vars

(***************************************************************************)
(* Specification of the collision-resolution loop: one caller over a       *)
(* plain directory that already holds documents at the unsuffixed path     *)
(* and at suffixed paths; creates and renaming updates run                 *)
(* generate_git_path_from_filename against that index.  The loop body has  *)
(* no await point, so a call that is in the loop takes its next iteration.  *)
(***************************************************************************)
CdPath == format_git_path(generate_filename(TitleCd), None)

LoopFound ==
    {<<AbPath, DocAb1>>,
     <<suffixed_git_path(generate_filename(TitleAb), None, 2), DocAb1>>,
     <<suffixed_git_path(generate_filename(TitleAb), None, 3), DocAb2>>,
     <<CdPath, DocCd1>>}

LoopStores == {Store(FilesOf(found), DiskRepo) : found \in SUBSET LoopFound}

InitLoop == InitOver(LoopStores)

CreateLoop(p) == \E content \in {DocAb1, DocCd1} : CallCreate(p, content, None)

UpdateLoop(p) ==
    \E git_path \in DOMAIN recipes :
        \/ \E content \in {DocAb1, DocCd1} :
              CallUpdate(p, git_path, None, Some(content), NotGiven)
        \/ CallUpdate(p, git_path, None, None, Given(Some(CatX)))

StepLoop(p) ==
    \/ RebuildClear1(p)
    \/ RebuildClear2(p)
    \/ RebuildDiscover(p)
    \/ RebuildFile(p)
    \/ CreateLoop(p)
    \/ CreateWrite(p)
    \/ UpdateLoop(p)
    \/ UpdateRead(p)
    \/ GenerateGitPath(p)
    \/ UpdateWrite(p)
    \/ UpdateDelete(p)
    \/ UpdateReread(p)
    \/ IndexInsert1(p)
    \/ IndexInsert2(p)
    \/ IndexRemove1(p)
    \/ IndexRemove2(p)
    \/ Resume(p)

NextLoop == StepLoop(1)

SpecLoop == InitLoop /\ [][NextLoop]_vars /\ WF_vars(GenerateGitPath(1))

(***************************************************************************)
(* Specification of the filename utilities (parser/mod.rs):                *)
(* generate_filename applied to every title of up to MaxTitleLen           *)
(* characters over TitleChars, and should_rename_file applied to the       *)
(* filename generated from one such title and another such title.          *)
(***************************************************************************)
TitleChars == {"A", "a", "b", " ", "-"}

SlugTitles == UNION {[1..n -> TitleChars] : n \in 0..MaxTitleLen}

GenerateFilename(p) ==
    \E title \in SlugTitles :
        /\ Enter(p, Call("generate_filename", <<>>, Some(title), None, NotGiven))
        /\ ev' = [ev EXCEPT ![p] = <<>>]
        /\ Return(p, Result("generate_filename", "ok", "", <<>>, generate_filename(title),
                            title, None, <<>>))
        /\ UNCHANGED <<recipes, id_to_path, files, repo>>

\* the old filename is the one generated from old_title; the answer is in `content`
ShouldRenameFile(p) ==
    \E old_title \in SlugTitles, new_title \in SlugTitles :
        LET old_filename == generate_filename(old_title) IN
        /\ Enter(p, Call("should_rename_file", old_filename, Some(new_title), Some(old_title), NotGiven))
        /\ ev' = [ev EXCEPT ![p] = <<>>]
        /\ Return(p, Result("should_rename_file", "ok", "", <<>>, old_filename, new_title, None,
                            <<should_rename_file(old_filename, new_title)>>))
        /\ UNCHANGED <<recipes, id_to_path, files, repo>>

InitSlug == InitOver({Store(EmptyMap, DiskRepo)})

StepSlug(p) ==
    \/ RebuildClear1(p)
    \/ RebuildClear2(p)
    \/ RebuildDiscover(p)
    \/ RebuildFile(p)
    \/ GenerateFilename(p)
    \/ ShouldRenameFile(p)
    \/ Resume(p)

NextSlug == StepSlug(1)

SpecSlug == InitSlug /\ [][NextSlug]_vars

(***************************************************************************)
(* Specification of the versioned backend (storage/git.rs): callers on     *)
(* several threads call write_file, read_file, delete_file and             *)
(* discover_files of one GitStorage.  Every operation first locks          *)
(* `repo: Mutex<GitRepository>` and holds the guard until it returns;      *)
(* repo.lock is the holder of the mutex, 0 when it is free.  A write and a *)
(* delete change the working tree, stage the path and commit in separate   *)
(* steps.                                                                  *)
(***************************************************************************)
StoragePaths == {AbPath, format_git_path(generate_filename(TitleCd), None)}
StorageContents == {DocAb1, DocCd1}

StorageCalls ==
    {Call("write_file", path, None, Some(content), NotGiven) :
        path \in StoragePaths, content \in StorageContents}
    \cup {Call(op, path, None, None, NotGiven) : op \in {"read_file", "delete_file"}, path \in StoragePaths}
    \cup {Call("discover_files", <<>>, None, None, NotGiven)}

\* Ok(cook_files) of discover_files: the paths found, in `content`
Discovered(cook_files) ==
    Result("discover_files", "ok", "", <<>>, <<>>, <<>>, None, cook_files)

\* a caller enters one of the four operations
StorageCall(p) ==
    /\ BelowMaxCommits
    /\ \E c \in StorageCalls : Enter(p, c)
    /\ ev' = [ev EXCEPT ![p] = <<>>]
    /\ Goto(p, "g_lock")
    /\ Pending(p)
    /\ UNCHANGED <<recipes, id_to_path, files, repo, loc>>

\* variant: the guard is taken without waiting for the mutex to be free
StorageLock_unchecked(p) ==
    /\ pc[p] = "g_lock"
    /\ repo' = [repo EXCEPT !.lock = p]
    /\ Log(p, Event("lock", call[p].git_path))
    /\ Goto(p, CASE call[p].op = "write_file" -> "g_write"
                 [] call[p].op = "read_file" -> "g_read"
                 [] call[p].op = "delete_file" -> "g_remove"
                 [] OTHER -> "g_walk")
    /\ UNCHANGED <<recipes, id_to_path, files, loc, call, res, all_ok, pre, created>>

\* self.repo.lock(): blocks until the mutex is free
StorageLock(p) ==
    /\ pc[p] = "g_lock"
    /\ repo.lock = 0
    /\ repo' = [repo EXCEPT !.lock = p]
    /\ Log(p, Event("lock", call[p].git_path))
    /\ Goto(p, CASE call[p].op = "write_file" -> "g_write"
                 [] call[p].op = "read_file" -> "g_read"
                 [] call[p].op = "delete_file" -> "g_remove"
                 [] OTHER -> "g_walk")
    /\ UNCHANGED <<recipes, id_to_path, files, loc, call, res, all_ok, pre, created>>

\* write_file: create_dir_all(parent); std::fs::write(&full_path, content)
GitWriteFile(p) ==
    /\ pc[p] = "g_write"
    /\ files' = write_file(files, call[p].git_path, call[p].content.val)
    /\ Log(p, Event("write", call[p].git_path))
    /\ Goto(p, "g_stage")
    /\ UNCHANGED <<recipes, id_to_path, repo, loc, call, res, all_ok, pre, created>>

\* delete_file_with_author: if file_path.exists() { remove_file }
GitRemoveFile(p) ==
    /\ pc[p] = "g_remove"
    /\ files' = delete_file(files, call[p].git_path)
    /\ Log(p, Event("delete", call[p].git_path))
    /\ Goto(p, "g_stage")
    /\ UNCHANGED <<recipes, id_to_path, repo, loc, call, res, all_ok, pre, created>>

\* index.add_path / index.remove_path, then index.write()
GitStage(p) ==
    /\ pc[p] = "g_stage"
    /\ repo' = IF call[p].op = "write_file" THEN index_add(repo, call[p].git_path)
                ELSE index_remove(repo, call[p].git_path)
    /\ Log(p, Event("stage", call[p].git_path))
    /\ Goto(p, "g_commit")
    /\ UNCHANGED <<recipes, id_to_path, files, loc, call, res, all_ok, pre, created>>

\* write_tree and repo.commit; a delete needs the HEAD commit as parent
GitCommit(p) ==
    /\ pc[p] = "g_commit"
    /\ Log(p, Event("commit", call[p].git_path))
    /\ IF call[p].op = "write_file"
       THEN /\ repo' = commit(repo, <<"Update recipe", call[p].git_path>>)
            /\ res' = [res EXCEPT ![p] = Unit("write_file")]
       ELSE IF delete_has_head(repo)
       THEN /\ repo' = commit(repo, <<"Delete recipe", call[p].git_path>>)
            /\ res' = [res EXCEPT ![p] = Unit("delete_file")]
       ELSE /\ res' = [res EXCEPT ![p] = Failure("delete_file", "Vcs")]
            /\ UNCHANGED repo
    /\ Goto(p, "g_unlock")
    /\ UNCHANGED <<recipes, id_to_path, files, loc, call, all_ok, pre, created>>

\* git::read_file: std::fs::read_to_string
GitRead(p) ==
    /\ pc[p] = "g_read"
    /\ Log(p, Event("read", call[p].git_path))
    /\ LET content == read_file(files, call[p].git_path) IN
       res' = [res EXCEPT ![p] =
                 IF content.ok
                 THEN Result("read_file", "ok", "", call[p].git_path, <<>>, <<>>, None, content.val)
                 ELSE Failure("read_file", "Io")]
    /\ Goto(p, "g_unlock")
    /\ UNCHANGED <<recipes, id_to_path, files, repo, loc, call, all_ok, pre, created>>

\* git::discover_cook_files: walk of the working tree
GitDiscover(p) ==
    /\ pc[p] = "g_walk"
    /\ Log(p, Event("discover", <<>>))
    /\ loc' = [loc EXCEPT ![p].todo = discover_files(files)]
    /\ res' = [res EXCEPT ![p] = Discovered(discover_files(files))]
    /\ Goto(p, "g_unlock")
    /\ UNCHANGED <<recipes, id_to_path, files, repo, call, all_ok, pre, created>>

\* the operation returns and its MutexGuard is dropped
StorageUnlock(p) ==
    /\ pc[p] = "g_unlock"
    /\ repo' = [repo EXCEPT !.lock = 0]
    /\ Log(p, Event("unlock", call[p].git_path))
    /\ Return(p, res[p])
    /\ UNCHANGED <<recipes, id_to_path, files, call, pre, created>>

InitStorageOver(repos) ==
    /\ files = EmptyMap
    /\ repo \in repos
    /\ recipes = EmptyMap
    /\ id_to_path = EmptyMap
    /\ pc = [p \in Procs |-> "idle"]
    /\ loc = [p \in Procs |-> LocInit]
    /\ call = [p \in Procs |-> NoCall]
    /\ res = [p \in Procs |-> NoResult]
    /\ pre = [p \in Procs |-> [recipes |-> EmptyMap, id_to_path |-> EmptyMap,
                               files |-> EmptyMap, repo |-> DiskRepo]]
    /\ ev = [p \in Procs |-> <<>>]
    /\ created = NoCreated
    /\ all_ok = TRUE

InitStorage == InitStorageOver({GitRepo})

StepStorage(p) ==
    \/ StorageCall(p)
    \/ StorageLock(p)
    \/ GitWriteFile(p)
    \/ GitRemoveFile(p)
    \/ GitStage(p)
    \/ GitCommit(p)
    \/ GitRead(p)
    \/ GitDiscover(p)
    \/ StorageUnlock(p)
    \/ Resume(p)

NextStorage == \E p \in Procs : StepStorage(p)

SpecStorage == InitStorage /\ [][NextStorage]_vars

(***************************************************************************)
(* Specification of the two backends: one caller makes up to MaxCalls      *)
(* storage calls on a DiskStorage or on a GitStorage that starts from an   *)
(* empty directory.  ev keeps, for every call that has returned, the call  *)
(* and its result.                                                         *)
(***************************************************************************)
BackendCalls ==
    {Call("write_file", path, None, Some(content), NotGiven) :
        path \in {AbPath, NoTitlePath}, content \in StorageContents}
    \cup {Call(op, path, None, None, NotGiven) :
            op \in {"read_file", "delete_file"}, path \in {AbPath, NoTitlePath}}
    \cup {Call("discover_files", <<>>, None, None, NotGiven)}

Done(c, r) == [e |-> "done", path |-> c.git_path, call |-> c, res |-> r]

Completed(p) == SelectSeq(ev[p], LAMBDA e : e.e = "done")

\* storage/disk.rs: what a call leaves in the directory and what it returns
disk_apply(fs, c) ==
    CASE c.op = "write_file" -> write_file(fs, c.git_path, c.content.val)
      [] c.op = "delete_file" -> delete_file(fs, c.git_path)
      [] OTHER -> fs

disk_result(fs, c) ==
    CASE c.op = "write_file" -> Unit("write_file")
      [] c.op = "delete_file" -> Unit("delete_file")
      [] c.op = "read_file" ->
           IF read_file(fs, c.git_path).ok
           THEN Result("read_file", "ok", "", c.git_path, <<>>, <<>>, None,
                       read_file(fs, c.git_path).val)
           ELSE Failure("read_file", "Io")
      [] OTHER -> Discovered(discover_files(fs))

BackendCall(p) ==
    /\ Len(ev[p]) < MaxCalls
    /\ \E c \in BackendCalls : Enter(p, c)
    /\ Goto(p, IF repo.backend = "git" THEN "g_lock" ELSE "k_op")
    /\ Pending(p)
    /\ UNCHANGED <<recipes, id_to_path, files, repo, loc, ev>>

\* impl RecipeStorage for DiskStorage: no lock, the call runs to its return
DiskStorageOp(p) ==
    /\ pc[p] = "k_op"
    /\ files' = disk_apply(files, call[p])
    /\ Return(p, disk_result(files, call[p]))
    /\ UNCHANGED <<recipes, id_to_path, repo, call, pre, created, ev>>

\* the caller takes the result and is ready for its next call
BackendResume(p) ==
    /\ pc[p] = "returned"
    /\ pc' = [pc EXCEPT ![p] = "idle"]
    /\ ev' = [ev EXCEPT ![p] = Append(Completed(p), Done(call[p], res[p]))]
    /\ call' = [call EXCEPT ![p] = NoCall]
    /\ res' = [res EXCEPT ![p] = NoResult]
    /\ UNCHANGED <<recipes, id_to_path, files, repo, loc, all_ok, pre, created>>

StepBackends(p) ==
    \/ BackendCall(p)
    \/ DiskStorageOp(p)
    \/ StorageLock(p)
    \/ GitWriteFile(p)
    \/ GitRemoveFile(p)
    \/ GitStage(p)
    \/ GitCommit(p)
    \/ GitRead(p)
    \/ GitDiscover(p)
    \/ StorageUnlock(p)
    \/ BackendResume(p)

NextBackends == StepBackends(1)

InitBackends == InitStorageOver({DiskRepo, GitRepo})

SpecBackends == InitBackends /\ [][NextBackends]_vars

(***************************************************************************)
(* Query views of the index (repository.rs list_all, search_by_name,       *)
(* get_recipe_git_path), as sets of git paths                              *)
(***************************************************************************)
list_all(index) == { index[k].git_path : k \in DOMAIN index }

search_by_name(index, query) ==
    { index[k].git_path : k \in { x \in DOMAIN index :
                                    contains(to_lowercase(index[x].name), to_lowercase(query)) } }

get_recipe_git_path(ids, recipe_id) ==
    IF recipe_id \in DOMAIN ids THEN Some(ids[recipe_id]) ELSE None

\* cache.get_by_category: entry.value().category.as_deref() == Some(category)
list_by_category(index, category) ==
    { index[k].git_path : k \in { x \in DOMAIN index : index[x].category = Some(category) } }

\* cache.get_categories: the categories of the records that have one
get_categories(index) ==
    { index[k].category.val : k \in { x \in DOMAIN index : index[x].category.some } }

\* the queries a reader searches with
Queries == { <<>>, <<"a">>, <<"B">>, <<"c"," ">>, <<"z">> }

(***************************************************************************)
(* Specification of readers: the repository has been constructed over a    *)
(* directory holding a root-level document and a document in a category.   *)
(* One caller deletes documents and rebuilds the index by hand             *)
(* (rebuild_from_storage is public) while the other reads and queries the  *)
(* index, their steps interleaved.                                         *)
(***************************************************************************)
ReaderFiles == MapPut(MapPut(EmptyMap, AbPath, DocAb1), NoTitlePath, NoTitle)

\* the record rebuild_from_storage builds of a file
rebuilt_record(fs, git_path) ==
    CachedRecipe(generate_recipe_id(git_path), git_path,
                 rebuild_name(fs[git_path], git_path),
                 extract_category_from_path(git_path),
                 parse_recipe(fs[git_path], rebuild_name(fs[git_path], git_path)).val)

\* with_storage has returned: every file is indexed and no call is in progress
InitReaders ==
    /\ files = ReaderFiles
    /\ repo \in {DiskRepo, GitRepo}
    /\ recipes = [git_path \in DOMAIN ReaderFiles |-> rebuilt_record(ReaderFiles, git_path)]
    /\ id_to_path = [id \in {generate_recipe_id(k) : k \in DOMAIN ReaderFiles} |->
                        CHOOSE k \in DOMAIN ReaderFiles : generate_recipe_id(k) = id]
    /\ pc = [p \in Procs |-> "idle"]
    /\ loc = [p \in Procs |-> LocInit]
    /\ call = [p \in Procs |-> NoCall]
    /\ res = [p \in Procs |-> NoResult]
    /\ pre = [p \in Procs |-> [recipes |-> EmptyMap, id_to_path |-> EmptyMap,
                               files |-> files, repo |-> repo]]
    /\ ev = [p \in Procs |-> <<>>]
    /\ created = NoCreated
    /\ all_ok = TRUE

\* the index queries, the argument of a query in `name`
QueryCalls ==
    {Call(op, <<>>, None, None, NotGiven) : op \in {"list_all", "get_categories"}}
    \cup {Call("search_by_name", <<>>, Some(query), None, NotGiven) : query \in {<<"a">>, <<"z">>}}
    \cup {Call("list_by_category", <<>>, Some(category), None, NotGiven) : category \in {CatX, <<>>}}
    \cup {Call("get_recipe_git_path", <<>>, Some(generate_recipe_id(git_path)), None, NotGiven) :
             git_path \in DOMAIN ReaderFiles}

\* what the query returns, lists as the set of the paths of their records
query_result(c) ==
    CASE c.op = "list_all" -> list_all(recipes)
      [] c.op = "get_categories" -> get_categories(recipes)
      [] c.op = "search_by_name" -> search_by_name(recipes, c.name.val)
      [] c.op = "list_by_category" -> list_by_category(recipes, c.name.val)
      [] c.op = "get_recipe_git_path" -> get_recipe_git_path(id_to_path, c.name.val)

\* list_all, search_by_name, list_by_category, get_categories, get_recipe_git_path
Query(p) ==
    \E c \in QueryCalls :
        /\ Enter(p, c)
        /\ ev' = [ev EXCEPT ![p] = <<>>]
        /\ Return(p, Result(c.op, "ok", "", <<>>, <<>>, <<>>, None, query_result(c)))
        /\ UNCHANGED <<recipes, id_to_path, files, repo>>

\* one caller rebuilds and deletes, the other callers read and query
Writer == CHOOSE p \in Procs : \A q \in Procs : p <= q
Reader(p) == p # Writer

QueryR(p) == Reader(p) /\ Query(p)
ReadR(p) == Reader(p) /\ \E git_path \in DOMAIN ReaderFiles : CallRead(p, git_path)
RebuildW(p) == p = Writer /\ CallRebuild(p)
DeleteW(p) == p = Writer /\ DeleteR(p)

StepReaders(p) ==
    \/ QueryR(p)
    \/ ReadR(p)
    \/ ReadFile(p)
    \/ RebuildW(p)
    \/ RebuildClear1(p)
    \/ RebuildClear2(p)
    \/ RebuildDiscover(p)
    \/ RebuildFile(p)
    \/ DeleteW(p)
    \/ DeleteFile(p)
    \/ IndexInsert1(p)
    \/ IndexInsert2(p)
    \/ IndexRemove1(p)
    \/ IndexRemove2(p)
    \/ Resume(p)

NextReaders == \E p \in Procs : StepReaders(p)

SpecReaders == InitReaders /\ [][NextReaders]_vars

(***************************************************************************)
(* Vocabulary of the properties                                            *)
(***************************************************************************)
Returned(p, op) == pc[p] = "returned" /\ call[p].op = op
Succeeded(p, op) == Returned(p, op) /\ res[p].status = "ok"

\* the storage writes and deletes and the index mutations of a call, in order
IsMutation(e) == e.e \in {"write", "delete", "recipes_insert", "ids_insert",
                          "recipes_remove", "ids_remove", "recipes_clear", "ids_clear"}
Mutations(p) == SelectSeq(ev[p], IsMutation)
StorageMutations(p) == SelectSeq(ev[p], LAMBDA e : e.e \in {"write", "delete"})

IsPrefix(s, t) == Len(s) <= Len(t) /\ SubSeq(t, 1, Len(s)) = s

\* index and storage are as they were when the call started
StateUnchanged(p) == Snapshot = pre[p]

\* the first candidate, in the order unsuffixed, -2, -3, ..., that `index` does not hold
FirstFreePath(filename, category, index) ==
    IF format_git_path(filename, category) \notin DOMAIN index
    THEN format_git_path(filename, category)
    ELSE LET k == CHOOSE n \in 2..(Cardinality(DOMAIN index) + 2) :
                     /\ suffixed_git_path(filename, category, n) \notin DOMAIN index
                     /\ \A m \in 2..(n - 1) :
                           suffixed_git_path(filename, category, m) \in DOMAIN index
         IN suffixed_git_path(filename, category, k)

(***************************************************************************)
(* C1: a read of the path a create returned, with no call in between,      *)
(* succeeds and returns the content given to create and the path, title    *)
(* and category create returned.                                           *)
(***************************************************************************)
C1_ReadAfterCreate(p) ==
    /\ Returned(p, "read")
    /\ created.valid
    /\ call[p].git_path = created.git_path

C1_CreateReadRoundTrip ==
    \A p \in Procs :
        C1_ReadAfterCreate(p) =>
            /\ res[p].status = "ok"
            /\ res[p].content = created.content
            /\ res[p].git_path = created.git_path
            /\ res[p].name = created.name
            /\ res[p].category = created.category

\* the round trip of a content that starts with blank space, under the empty category
C1_Witness ==
    \E p \in Procs :
        /\ C1_ReadAfterCreate(p)
        /\ res[p].status = "ok"
        /\ res[p].content = DocAb2
        /\ res[p].category = Some(<<>>)

(***************************************************************************)
(* C2: a successful create returns the first candidate path, in the order  *)
(* unsuffixed, -2, -3, ..., that the index did not hold when it was        *)
(* called; the path is new to the index and every record the index held    *)
(* is still there unchanged.                                               *)
(***************************************************************************)
C2_CreatedPath(p) ==
    FirstFreePath(generate_filename(extract_recipe_title(call[p].content.val).val),
                  call[p].category.cat, pre[p].recipes)

C2_CollisionSuffix ==
    \A p \in Procs :
        Succeeded(p, "create") =>
            /\ res[p].git_path = C2_CreatedPath(p)
            /\ res[p].git_path \notin DOMAIN pre[p].recipes
            /\ res[p].git_path \in DOMAIN recipes
            /\ \A k \in DOMAIN pre[p].recipes :
                  k \in DOMAIN recipes /\ recipes[k] = pre[p].recipes[k]

\* the second create of a slug under a category gets the suffix -2
C2_Witness ==
    \E p \in Procs :
        /\ Succeeded(p, "create")
        /\ call[p].category.cat = Some(CatX)
        /\ format_git_path(generate_filename(TitleAb), Some(CatX)) \in DOMAIN pre[p].recipes
        /\ res[p].git_path = suffixed_git_path(generate_filename(TitleAb), Some(CatX), 2)

(***************************************************************************)
(* C3: a successful update whose new content carries a title that          *)
(* slugifies to another filename moves the document: new path, new id;     *)
(* the old path is gone from the index and from storage, the old id        *)
(* resolves to nothing, the new id resolves to the new path, and the new   *)
(* path reads back the new content.                                        *)
(***************************************************************************)
C3_TitleRename(p) ==
    /\ Succeeded(p, "update")
    /\ call[p].content.some
    /\ generate_filename(extract_recipe_title(call[p].content.val).val)
          # extract_filename_from_path(call[p].git_path)

C3_RenameChangesId ==
    \A p \in Procs :
        C3_TitleRename(p) =>
            LET old == call[p].git_path
                new == res[p].git_path
                old_id == pre[p].recipes[old].recipe_id IN
            /\ new # old
            /\ new \in DOMAIN recipes
            /\ recipes[new].recipe_id # old_id
            /\ old \notin DOMAIN recipes
            /\ ~ file_exists(files, old)
            /\ get_recipe_git_path(id_to_path, old_id) = None
            /\ get_recipe_git_path(id_to_path, recipes[new].recipe_id) = Some(new)
            /\ read_file(files, new) = Ok(call[p].content.val)
            /\ res[p].content = call[p].content.val

\* the rename of a document that another document sits next to
C3_Witness ==
    \E p \in Procs :
        /\ C3_TitleRename(p)
        /\ call[p].content.val = DocCd1
        /\ Cardinality(DOMAIN pre[p].recipes) = 2
        /\ res[p].git_path = format_git_path(generate_filename(TitleCd), None)

(***************************************************************************)
(* C4 (as claimed): a successful update with new content whose title is    *)
(* the document's current title, and no category argument, returns the     *)
(* path it was called with and keeps the external id.                      *)
(***************************************************************************)
C4_SameTitleUpdate(p) ==
    /\ Succeeded(p, "update")
    /\ call[p].content.some
    /\ ~ call[p].category.given
    /\ extract_recipe_title(call[p].content.val).val = pre[p].recipes[call[p].git_path].name

C4_SameTitleKeepsPath ==
    \A p \in Procs :
        C4_SameTitleUpdate(p) =>
            /\ res[p].git_path = call[p].git_path
            /\ call[p].git_path \in DOMAIN recipes
            /\ recipes[call[p].git_path].recipe_id
                  = pre[p].recipes[call[p].git_path].recipe_id

(***************************************************************************)
(* C5 (as claimed): a successful update that supplies only a category      *)
(* different from the current one yields the old filename under the new    *)
(* category; the old path is no longer readable and the id changes.        *)
(***************************************************************************)
C5_CategoryMove(p) ==
    /\ Succeeded(p, "update")
    /\ ~ call[p].content.some
    /\ ~ call[p].name.some
    /\ call[p].category.given
    /\ call[p].category.cat.some
    /\ call[p].category.cat # pre[p].recipes[call[p].git_path].category

C5_Unreadable(p, git_path) ==
    git_path \notin DOMAIN recipes

C5_OldPathRetired(p) ==
    LET old == call[p].git_path
        new == res[p].git_path IN
    /\ new # old
    /\ C5_Unreadable(p, old)
    /\ new \in DOMAIN recipes
    /\ recipes[new].recipe_id # pre[p].recipes[old].recipe_id
    /\ get_recipe_git_path(id_to_path, pre[p].recipes[old].recipe_id) = None

C5_MoveKeepsFilename ==
    \A p \in Procs :
        C5_CategoryMove(p) =>
            /\ res[p].git_path = format_git_path(extract_filename_from_path(call[p].git_path),
                                                 call[p].category.cat)
            /\ C5_OldPathRetired(p)

(***************************************************************************)
(* C5 (amended): the new path is the first free candidate, in the order    *)
(* unsuffixed, -2, -3, ..., for the filename derived from the current      *)
(* title under the new category; so the filename is the old one when the   *)
(* old filename was the title-derived one and the target was free.  The    *)
(* old path is no longer readable and the id changes.                      *)
(***************************************************************************)
C5_MoveResolvesTarget ==
    \A p \in Procs :
        C5_CategoryMove(p) =>
            LET old == call[p].git_path
                current == pre[p].recipes[old]
                filename == generate_filename(current.name)
                target == format_git_path(filename, call[p].category.cat) IN
            /\ res[p].git_path = FirstFreePath(filename, call[p].category.cat, pre[p].recipes)
            /\ extract_category_from_path(res[p].git_path) = call[p].category.cat
            /\ res[p].category = call[p].category.cat
            /\ (extract_filename_from_path(old) = filename /\ target \notin DOMAIN pre[p].recipes)
                  => extract_filename_from_path(res[p].git_path) = extract_filename_from_path(old)
            /\ C5_OldPathRetired(p)

\* a move into a category that already holds the filename: the suffix -2 is appended
C5_Witness ==
    \E p \in Procs :
        /\ C5_CategoryMove(p)
        /\ call[p].git_path = format_git_path(generate_filename(TitleAb), None)
        /\ res[p].git_path = suffixed_git_path(generate_filename(TitleAb), Some(CatX), 2)

(***************************************************************************)
(* C6 (as claimed): after a successful delete the path is in no list_all   *)
(* and no search_by_name result, its id resolves to nothing, it is not in  *)
(* the index (so a read fails) and its file is gone; every other record    *)
(* and id is as before, and every other indexed document reads back from   *)
(* storage what it read back before the call.                              *)
(***************************************************************************)
C6_OthersReadable(p) ==
    \A k \in DOMAIN recipes :
        /\ file_exists(files, k) = file_exists(pre[p].files, k)
        /\ file_exists(files, k) => read_file(files, k).val = read_file(pre[p].files, k).val

C6_DeleteRemoves ==
    \A p \in Procs :
        Succeeded(p, "delete") =>
            LET path == call[p].git_path
                old_id == pre[p].recipes[path].recipe_id IN
            /\ path \notin list_all(recipes)
            /\ \A q \in Queries : path \notin search_by_name(recipes, q)
            /\ get_recipe_git_path(id_to_path, old_id) = None
            /\ cache_get(path) = None
            /\ ~ file_exists(files, path)
            /\ recipes = MapDel(pre[p].recipes, path)
            /\ id_to_path = MapDel(pre[p].id_to_path, old_id)
            /\ C6_OthersReadable(p)

(***************************************************************************)
(* C7: a create or update that fails validation has made no storage write  *)
(* or delete, and leaves files, contents and index as they were; content   *)
(* with a missing or malformed metadata block, a missing or empty title,   *)
(* or a body the parser rejects never succeeds.                            *)
(***************************************************************************)
C7_ValidationFailure(p) ==
    /\ Returned(p, "create") \/ Returned(p, "update")
    /\ \/ res[p].err = "Validation"
       \/ call[p].content.some /\ call[p].content.val \in InvalidContents

C7_ValidationBeforeMutation ==
    \A p \in Procs :
        C7_ValidationFailure(p) =>
            /\ res[p].status = "err"
            /\ call[p].op = "create" => res[p].err = "Validation"
            /\ StorageMutations(p) = <<>>
            /\ Mutations(p) = <<>>
            /\ StateUnchanged(p)

\* an update of an indexed document rejected for its content, after the read
C7_Witness ==
    \E p \in Procs :
        /\ Returned(p, "update")
        /\ res[p].err = "Validation"
        /\ call[p].content.val = Rejected
        /\ ev[p] = <<Event("read", call[p].git_path)>>
        /\ pre[p].files # EmptyMap

(***************************************************************************)
(* C8: read, update and delete of a path the index does not hold fail      *)
(* with not-found, make no storage call and change nothing, also when      *)
(* storage has a file at that path.                                        *)
(***************************************************************************)
C8_AbsentPath(p) ==
    /\ Returned(p, "read") \/ Returned(p, "update") \/ Returned(p, "delete")
    /\ call[p].git_path \notin DOMAIN pre[p].recipes

C8_NotFoundNoStorage ==
    \A p \in Procs :
        C8_AbsentPath(p) =>
            /\ res[p].status = "err"
            /\ res[p].err = "NotFound"
            /\ ev[p] = <<>>
            /\ StateUnchanged(p)

\* a delete of a path that has a file but no index record
C8_Witness ==
    \E p \in Procs :
        /\ C8_AbsentPath(p)
        /\ call[p].op = "delete"
        /\ file_exists(files, call[p].git_path)
        /\ res[p].err = "NotFound"

(***************************************************************************)
(* C9: in an update that renames, the mutations happen in the order:       *)
(* storage write of the new path, storage delete of the old path, removal  *)
(* of the old index entry (forward, then reverse map), insertion of the    *)
(* new one (forward, then reverse map).                                    *)
(***************************************************************************)
C9_RenameOrder(old, new) ==
    << Event("write", new), Event("delete", old),
       Event("recipes_remove", old), Event("ids_remove", old),
       Event("recipes_insert", new), Event("ids_insert", new) >>

\* the update has touched a path other than the one it was called with
C9_Renames(p) ==
    /\ call[p].op = "update"
    /\ \E i \in 1..Len(Mutations(p)) : Mutations(p)[i].path # call[p].git_path

C9_NewPath(p) ==
    LET m == Mutations(p)
        i == CHOOSE n \in 1..Len(m) : m[n].path # call[p].git_path
    IN m[i].path

C9_WriteDeleteThenIndex ==
    \A p \in Procs :
        C9_Renames(p) =>
            /\ IsPrefix(Mutations(p), C9_RenameOrder(call[p].git_path, C9_NewPath(p)))
            /\ Succeeded(p, "update") =>
                  Mutations(p) = C9_RenameOrder(call[p].git_path, res[p].git_path)

\* a completed rename
C9_Witness ==
    \E p \in Procs :
        /\ Succeeded(p, "update")
        /\ C9_Renames(p)
        /\ Len(Mutations(p)) = 6

(***************************************************************************)
(* C10 (as claimed): at every point of an update that renames, the index   *)
(* holds the document under the old path or under the new path.            *)
(***************************************************************************)
C10_InRename(p) ==
    /\ call[p].op = "update"
    /\ pc[p] \in {"u_write", "u_delete", "u_reread", "remove1", "remove2",
                  "insert1", "insert2"}
    /\ loc[p].path # call[p].git_path

C10_NeverVanishes ==
    \A p \in Procs :
        C10_InRename(p) =>
            \/ call[p].git_path \in list_all(recipes)
            \/ loc[p].path \in list_all(recipes)


(***************************************************************************)
(* C11: an update that renames, whose write to the new path succeeded and  *)
(* whose delete of the old path returned an error                          *)
(***************************************************************************)
C11_FailedDeletes(p) ==
    {i \in 2..Len(ev[p]) : ev[p][i].e = "delete_err" /\ ev[p][i - 1].e = "write"}

C11_DeleteFailedAfterWrite(p) ==
    Returned(p, "update") /\ C11_FailedDeletes(p) # {}

C11_OldPath(p) == ev[p][CHOOSE i \in C11_FailedDeletes(p) : TRUE].path
C11_NewPath(p) == ev[p][(CHOOSE i \in C11_FailedDeletes(p) : TRUE) - 1].path

(* C11 as stated: after the failed delete the document exists at both      *)
(* paths and the index holds a record for the new path and none for the    *)
(* old path.                                                               *)
C11_IndexReflectsNewPath ==
    \A p \in Procs :
        C11_DeleteFailedAfterWrite(p) =>
            /\ file_exists(files, C11_NewPath(p))
            /\ file_exists(files, C11_OldPath(p))
            /\ C11_NewPath(p) \in DOMAIN recipes
            /\ C11_OldPath(p) \notin DOMAIN recipes

(* C11, amended: after the failed delete the call has returned an error,   *)
(* the index is as it was before the call (a record for the old path and   *)
(* none for the new path), the document exists at the new path, and on the *)
(* plain backend it still exists at the old path too.                      *)
C11_IndexKeepsOldPath ==
    \A p \in Procs :
        C11_DeleteFailedAfterWrite(p) =>
            /\ res[p].status = "err"
            /\ recipes = pre[p].recipes
            /\ id_to_path = pre[p].id_to_path
            /\ C11_OldPath(p) \in DOMAIN recipes
            /\ C11_NewPath(p) \notin DOMAIN recipes
            /\ C11_NewPath(p) # C11_OldPath(p)
            /\ file_exists(files, C11_NewPath(p))
            /\ repo.backend = "disk" => file_exists(files, C11_OldPath(p))

C11_Witness ==
    \E p \in Procs :
        /\ C11_DeleteFailedAfterWrite(p)
        /\ file_exists(files, C11_NewPath(p))
        /\ file_exists(files, C11_OldPath(p))
        /\ C11_OldPath(p) \in DOMAIN recipes


(***************************************************************************)
(* C12: a create or delete whose storage call returned an error            *)
(***************************************************************************)
C12_StorageCallFailed(p) ==
    /\ Returned(p, "create") \/ Returned(p, "delete")
    /\ res[p].status = "err"
    /\ res[p].err \in {"Io", "Vcs"}

(* C12: on both backends a create or delete whose storage call returned an *)
(* error leaves the index, the set of files and their contents exactly as  *)
(* they were before the call.                                              *)
C12_FailedCallLeavesState ==
    \A p \in Procs :
        C12_StorageCallFailed(p) =>
            /\ recipes = pre[p].recipes
            /\ id_to_path = pre[p].id_to_path
            /\ files = pre[p].files


(***************************************************************************)
(* C13: a rebuild whose discovery succeeded                                *)
(***************************************************************************)
C13_Logged(p, e) == \E i \in 1..Len(ev[p]) : ev[p][i] = e

C13_Rebuilt(p) == Returned(p, "rebuild") /\ C13_Logged(p, Event("discover", <<>>))

C13_Parses(git_path) ==
    parse_recipe(files[git_path], rebuild_name(files[git_path], git_path)).ok

C13_Indexable(p) ==
    {git_path \in discover_files(files) :
        C13_Logged(p, Event("read", git_path)) /\ C13_Parses(git_path)}

(* C13: whenever discovery succeeds rebuild returns success, and the index *)
(* then holds exactly the discovered paths whose read and parse both       *)
(* succeeded: every discovered file was tried, a file that failed keeps no *)
(* other file out, and no record is left for a path that is not in storage *)
C13_RebuildIndexesReadable ==
    \A p \in Procs :
        C13_Rebuilt(p) =>
            /\ res[p].status = "ok"
            /\ \A git_path \in discover_files(files) :
                  \/ C13_Logged(p, Event("read", git_path))
                  \/ C13_Logged(p, Event("read_err", git_path))
            /\ DOMAIN recipes = C13_Indexable(p)
            /\ \A git_path \in DOMAIN recipes : recipes[git_path].git_path = git_path
            /\ DOMAIN id_to_path = {generate_recipe_id(git_path) : git_path \in C13_Indexable(p)}
            /\ DOMAIN recipes \subseteq DOMAIN files

C13_Witness ==
    \E p \in Procs :
        /\ C13_Rebuilt(p)
        /\ \E git_path \in discover_files(files) : C13_Logged(p, Event("read_err", git_path))
        /\ \E git_path \in discover_files(files) :
              C13_Logged(p, Event("read", git_path)) /\ ~ C13_Parses(git_path)
        /\ \E git_path \in DOMAIN pre[p].recipes : ~ file_exists(files, git_path)
        /\ recipes # EmptyMap


(***************************************************************************)
(* C14: a rebuild over files whose metadata block is invalid               *)
(***************************************************************************)
C14_InvalidMetadata(git_path) == ~ extract_recipe_title(files[git_path]).ok

C14_Tried(p) ==
    {git_path \in discover_files(files) : C13_Logged(p, Event("read", git_path))}

(* C14 as stated: after a rebuild a file whose metadata block is invalid   *)
(* (no delimiters, no title) is not in the index.                          *)
C14_InvalidMetadataExcluded ==
    \A p \in Procs :
        C13_Rebuilt(p) =>
            \A git_path \in C14_Tried(p) :
                C14_InvalidMetadata(git_path) => git_path \notin DOMAIN recipes

(* C14, amended: after a rebuild a file whose metadata block is invalid is *)
(* in the index under the name derived from its path whenever the parser   *)
(* accepts its content, a file with a valid block is in the index under    *)
(* its title whenever the parser accepts it, and exactly the files the     *)
(* parser rejects are left out.                                            *)
C14_InvalidMetadataFallsBack ==
    \A p \in Procs :
        C13_Rebuilt(p) =>
            /\ res[p].status = "ok"
            /\ \A git_path \in C14_Tried(p) :
                  LET content == files[git_path] IN
                  IF ~ parse_recipe(content, <<>>).ok
                  THEN git_path \notin DOMAIN recipes
                  ELSE /\ git_path \in DOMAIN recipes
                       /\ recipes[git_path].name =
                             IF C14_InvalidMetadata(git_path)
                             THEN path_to_name(git_path)
                             ELSE extract_recipe_title(content).val

C14_Witness ==
    \E p \in Procs :
        /\ C13_Rebuilt(p)
        /\ discover_files(files) = {AbPath, NoTitlePath}
        /\ C14_Tried(p) = {AbPath, NoTitlePath}
        /\ C14_InvalidMetadata(NoTitlePath)
        /\ DOMAIN recipes = {AbPath, NoTitlePath}


(***************************************************************************)
(* C15: a rebuild that follows calls which all succeeded                   *)
(***************************************************************************)
C15_Exposed(index) ==
    {<<k, index[k].recipe_id, index[k].name, index[k].category>> : k \in DOMAIN index}

(* C15: when every create, update and delete so far has succeeded, a       *)
(* rebuild leaves the index as it was: the same paths, and for every path  *)
(* the same id, title and category.                                        *)
C15_RebuildIsIdentity ==
    \A p \in Procs :
        (Returned(p, "rebuild") /\ all_ok) =>
            /\ C15_Exposed(recipes) = C15_Exposed(pre[p].recipes)
            /\ id_to_path = pre[p].id_to_path


(***************************************************************************)
(* C18: a create or update that was given the empty string as category and *)
(* whose path was in the index and whose content was accepted              *)
(***************************************************************************)
C18_EmptyCategoryCall(p) ==
    /\ Returned(p, "create") \/ Returned(p, "update")
    /\ call[p].category = Given(Some(<<>>))
    /\ res[p].err \notin {"Validation", "NotFound"}

(* C18: a create or update given the empty string as category behaves as   *)
(* one given no category: it does not fail, the document is at root level  *)
(* (root/filename) and its record has no category.                         *)
C18_EmptyCategoryIsNone ==
    \A p \in Procs :
        C18_EmptyCategoryCall(p) =>
            /\ res[p].status = "ok"
            /\ res[p].git_path =
                  format_git_path(extract_filename_from_path(res[p].git_path), None)
            /\ res[p].category = None
            /\ res[p].git_path \in DOMAIN recipes
            /\ recipes[res[p].git_path].category = None


(***************************************************************************)
(* C16: in every reachable state the category of every cached record is    *)
(* the category derived from the record's own path.                        *)
(***************************************************************************)
C16_CategoryMatchesPath ==
    \A k \in DOMAIN recipes :
        /\ recipes[k].git_path = k
        /\ recipes[k].category = extract_category_from_path(recipes[k].git_path)

C16_Witness ==
    /\ \E k \in DOMAIN recipes : recipes[k].category = Some(CatX)
    /\ \E k \in DOMAIN recipes : recipes[k].category = None
    /\ \E p \in Procs : Succeeded(p, "update") /\ call[p].category.given


(***************************************************************************)
(* C17: the category derived from a path, stated on the characters of the  *)
(* path: what lies between the root's '/' and the last '/'                 *)
(***************************************************************************)
C17_Root == RECIPES \o <<"/">>

C17_LastSlash(path) ==
    LET at == {i \in 1..Len(path) : path[i] = "/"} IN
    IF at = {} THEN 0 ELSE CHOOSE i \in at : \A j \in at : j <= i

C17_UnderRoot(path) ==
    /\ Len(path) >= Len(C17_Root)
    /\ SubSeq(path, 1, Len(C17_Root)) = C17_Root

C17_Between(path) ==
    IF C17_UnderRoot(path) /\ C17_LastSlash(path) > Len(C17_Root)
    THEN Some(SubSeq(path, Len(C17_Root) + 1, C17_LastSlash(path) - 1))
    ELSE None

(* C17: the derivation returns all segments between the fixed root and the *)
(* filename joined by '/', at any depth, and none for a root-level path    *)
(* and for a path that does not start with the root.                       *)
C17_CategoryIsSegmentsBetween ==
    \A p \in Procs :
        Returned(p, "category") =>
            /\ res[p].category = C17_Between(call[p].git_path)
            /\ ~ C17_UnderRoot(call[p].git_path) => res[p].category = None
            /\ C17_LastSlash(call[p].git_path) <= Len(C17_Root) => res[p].category = None

C17_Witness ==
    \E p \in Procs :
        /\ Returned(p, "category")
        /\ call[p].git_path = join(<<RECIPES, <<"x">>, <<"y">>, <<"x">>, <<"f">> \o COOK_EXT>>, "/")
        /\ res[p].category = Some(<<"x", "/", "y", "/", "x">>)


(***************************************************************************)
(* C19: commits added by a successful call on the versioned backend        *)
(***************************************************************************)
C19_Versioned(p, op) == Succeeded(p, op) /\ repo.backend = "git"

C19_Added(p) == Len(repo.commits) - Len(pre[p].repo.commits)

C19_Renamed(p) == res[p].git_path # call[p].git_path

(* C19 as stated: every successful create, update and delete on the        *)
(* versioned backend adds exactly one commit.                              *)
C19_OneCommitPerCall ==
    \A p \in Procs :
        \A op \in {"create", "update", "delete"} :
            C19_Versioned(p, op) => C19_Added(p) = 1

(* C19, amended: on the versioned backend every storage write and every    *)
(* storage delete of a successful call adds exactly one commit on top of   *)
(* the previous one: a create and a delete add one commit, an update that  *)
(* renames adds two, an update given content that keeps the path adds one, *)
(* and an update that changes neither content nor path adds none.          *)
C19_OneCommitPerStorageCall ==
    \A p \in Procs :
        /\ \A op \in {"create", "update", "delete"} :
              C19_Versioned(p, op) =>
                  /\ C19_Added(p) = Len(StorageMutations(p))
                  /\ SubSeq(repo.commits, 1, Len(pre[p].repo.commits)) = pre[p].repo.commits
                  /\ \A i \in 1..Len(repo.commits) : repo.commits[i].parent = i - 1
        /\ C19_Versioned(p, "create") => C19_Added(p) = 1
        /\ C19_Versioned(p, "delete") => C19_Added(p) = 1
        /\ C19_Versioned(p, "update") =>
              C19_Added(p) = IF C19_Renamed(p) THEN 2
                             ELSE IF call[p].content.some THEN 1
                             ELSE 0

C19_Witness ==
    \E p \in Procs :
        /\ C19_Versioned(p, "update")
        /\ C19_Renamed(p)
        /\ C19_Added(p) = 2
        /\ repo.commits[Len(repo.commits)].message = <<"Delete recipe", call[p].git_path>>


(***************************************************************************)
(* C20: the callers that are inside the body of a storage operation of the *)
(* versioned backend, between taking the mutex and returning               *)
(***************************************************************************)
C20_BodyLabels == {"g_write", "g_remove", "g_stage", "g_commit", "g_read", "g_walk", "g_unlock"}

C20_InBody == {p \in Procs : pc[p] \in C20_BodyLabels}

(* C20: on the versioned backend at most one storage operation (write,     *)
(* read, delete, discover) is inside its body at any time, and it is the   *)
(* holder of the mutex, so the steps of a write or delete are never        *)
(* interleaved with another storage operation.                             *)
C20_OneOperationInBody ==
    /\ Cardinality(C20_InBody) <= 1
    /\ \A p \in C20_InBody : repo.lock = p
    /\ C20_InBody = {} => repo.lock = 0

C20_Witness ==
    \E p, q \in Procs :
        /\ p # q
        /\ pc[p] = "g_stage"
        /\ call[p].op = "delete_file"
        /\ pc[q] = "g_lock"
        /\ call[q].op = "write_file"
        /\ call[q].git_path = call[p].git_path


(***************************************************************************)
(* C21: a write_file or delete_file of the versioned backend that returned *)
(***************************************************************************)
C21_Returned(p) == Returned(p, "write_file") \/ Returned(p, "delete_file")

(* C21: on the versioned backend write and delete both succeed with or     *)
(* without a HEAD; every commit has the previous HEAD as its parent and    *)
(* the first commit has none.                                              *)
C21_SucceedsWithOrWithoutHead ==
    \A p \in Procs :
        C21_Returned(p) =>
            /\ res[p].status = "ok"
            /\ repo.commits # <<>>
            /\ \A i \in 1..Len(repo.commits) : repo.commits[i].parent = i - 1


(***************************************************************************)
(* C22: a storage delete of a path that is absent                          *)
(***************************************************************************)
C22_DeleteOfAbsent(p) ==
    /\ Returned(p, "delete_file")
    /\ ~ file_exists(pre[p].files, call[p].git_path)

(* C22: on both backends a storage delete of an absent path succeeds and   *)
(* leaves the set of files unchanged, so a delete after a delete of the    *)
(* same path succeeds and ends in the same files as the first.             *)
C22_DeleteIsIdempotent ==
    \A p \in Procs :
        /\ C22_DeleteOfAbsent(p) => res[p].status = "ok" /\ files = pre[p].files
        /\ Returned(p, "delete_file") => ~ file_exists(files, call[p].git_path)

(***************************************************************************)
(* C23: the calls a backend has answered, replayed on the plain backend    *)
(***************************************************************************)
RECURSIVE C23_DiskAfter(_, _)
C23_DiskAfter(h, n) ==
    IF n = 0 THEN EmptyMap ELSE disk_apply(C23_DiskAfter(h, n - 1), h[n].call)

(* C23: for every sequence of write, read, delete and discover calls from  *)
(* the same files, the versioned backend returns for every call what the   *)
(* plain backend returns and ends with the same files and contents.        *)
C23_BackendsAgree ==
    \A p \in Procs :
        pc[p] = "idle" =>
            LET h == Completed(p) IN
            /\ \A n \in 1..Len(h) :
                  h[n].res = disk_result(C23_DiskAfter(h, n - 1), h[n].call)
            /\ p = 1 => files = C23_DiskAfter(h, Len(h))

(***************************************************************************)
(* C24: a storage read, and the successful writes and deletes of its path  *)
(* that came before it                                                     *)
(***************************************************************************)
C24_Changes(p) ==
    LET h == Completed(p) IN
    {n \in 1..Len(h) :
        /\ h[n].call.op \in {"write_file", "delete_file"}
        /\ h[n].res.status = "ok"
        /\ h[n].call.git_path = call[p].git_path}

C24_LastChange(p) ==
    Completed(p)[CHOOSE n \in C24_Changes(p) : \A m \in C24_Changes(p) : m <= n].call

C25_NoContent(p) == Succeeded(p, "update") /\ ~ call[p].content.some

C25_Current(p) == pre[p].recipes[call[p].git_path]

\* category.flatten() is None, or is the category the document has
C25_NoCategoryChange(p) ==
    \/ ~ call[p].category.given
    \/ ~ call[p].category.cat.some
    \/ call[p].category.cat = C25_Current(p).category

(* C25: an update that supplies no new content keeps the document's        *)
(* current title whatever its other arguments are, and when it also        *)
(* changes no category it leaves the path, the id and the stored files     *)
(* unchanged.                                                              *)
C25_NoContentKeepsTitle ==
    \A p \in Procs :
        C25_NoContent(p) =>
            /\ res[p].name = C25_Current(p).name
            /\ C25_NoCategoryChange(p) =>
                  /\ res[p].git_path = call[p].git_path
                  /\ call[p].git_path \in DOMAIN recipes
                  /\ recipes[call[p].git_path].recipe_id = C25_Current(p).recipe_id
                  /\ files = pre[p].files


(***************************************************************************)
(* C26: the last segment of a path                                         *)
(***************************************************************************)
C26_LastSegment(git_path) ==
    LET slashes == {n \in 1..Len(git_path) : git_path[n] = "/"} IN
    IF slashes = {} THEN git_path
    ELSE SubSeq(git_path, (CHOOSE n \in slashes : \A m \in slashes : m <= n) + 1,
                Len(git_path))

(* C26: the file_name of the record a successful create or update returns  *)
(* is the last segment of the returned path, collision suffix included,    *)
(* which is the file_name a read of that path returns.                     *)
C26_FileNameIsLastSegment ==
    \A p \in Procs :
        /\ Succeeded(p, "create") \/ Succeeded(p, "update")
              => res[p].file_name = C26_LastSegment(res[p].git_path)
        /\ Succeeded(p, "read")
              => res[p].file_name = C26_LastSegment(res[p].git_path)


(***************************************************************************)
(* C27: titles that differ only in case or surrounding whitespace          *)
(***************************************************************************)
C27_SameUpToCaseAndTrim(t1, t2) == to_lowercase(trim(t1)) = to_lowercase(trim(t2))

(* C27: the filename generated from a title is the one generated from the  *)
(* lowercased title and from the trimmed title, and should_rename_file     *)
(* answers false for a filename generated from a title that differs from   *)
(* the new title only in case or surrounding whitespace.                   *)
C27_SlugIgnoresCaseAndTrim ==
    \A p \in Procs :
        /\ Returned(p, "generate_filename") =>
              /\ res[p].file_name = generate_filename(to_lowercase(call[p].name.val))
              /\ res[p].file_name = generate_filename(trim(call[p].name.val))
        /\ Returned(p, "should_rename_file") =>
              (C27_SameUpToCaseAndTrim(call[p].content.val, call[p].name.val)
                  => res[p].content = <<FALSE>>)

C27_Witness ==
    \E p \in Procs :
        /\ Returned(p, "should_rename_file")
        /\ call[p].content.val = <<"a">>
        /\ call[p].name.val = <<" ", "A", " ">>
        /\ call[p].git_path = <<"a">> \o COOK_EXT
        /\ res[p].content = <<FALSE>>


(***************************************************************************)
(* C28: no call is in progress and every call so far has returned Ok       *)
(***************************************************************************)
C28_BetweenCalls == all_ok /\ \A p \in Procs : pc[p] \in {"idle", "returned"}

(* C28: from an empty store, after sequential calls none of which failed,  *)
(* the paths of the index are the document files of the storage and a      *)
(* read of every indexed path succeeds.                                    *)
C28_IndexMatchesStorage ==
    C28_BetweenCalls =>
        /\ DOMAIN recipes = discover_files(files)
        /\ \A git_path \in DOMAIN recipes : read_file(files, git_path).ok


(***************************************************************************)
(* C29: no repository call is in progress                                  *)
(***************************************************************************)
C29_NoCallInProgress == \A p \in Procs : pc[p] \in {"idle", "returned"}

(* C29: after sequential create, update, delete and rebuild calls the      *)
(* reverse map is the exact inverse of the forward map: the id of every    *)
(* record is the fingerprint of the record's path and maps back to it, and *)
(* the reverse map holds no id whose path is not in the forward map.       *)
C29_ReverseMapIsInverse ==
    C29_NoCallInProgress =>
        /\ \A git_path \in DOMAIN recipes :
              /\ recipes[git_path].git_path = git_path
              /\ recipes[git_path].recipe_id = generate_recipe_id(git_path)
              /\ recipes[git_path].recipe_id \in DOMAIN id_to_path
              /\ id_to_path[recipes[git_path].recipe_id] = git_path
        /\ \A id \in DOMAIN id_to_path :
              /\ id_to_path[id] \in DOMAIN recipes
              /\ recipes[id_to_path[id]].recipe_id = id

C29_Witness ==
    \E p \in Procs :
        /\ Succeeded(p, "update")
        /\ res[p].git_path # call[p].git_path
        /\ Cardinality(DOMAIN recipes) = 2
        /\ Cardinality(DOMAIN id_to_path) = 2
        /\ generate_recipe_id(call[p].git_path) \in DOMAIN pre[p].id_to_path
        /\ generate_recipe_id(call[p].git_path) \notin DOMAIN id_to_path
        /\ id_to_path[generate_recipe_id(res[p].git_path)] = res[p].git_path


(***************************************************************************)
(* C30: two callers have both returned from a successful create, of titles *)
(* that generate the same filename, under the same category                *)
(***************************************************************************)
C30_BothCreated(p, q) ==
    /\ p # q
    /\ Succeeded(p, "create")
    /\ Succeeded(q, "create")
    /\ res[p].file_name = res[q].file_name
    /\ call[p].category = call[q].category

C30_Holds(p) ==
    /\ res[p].git_path \in DOMAIN recipes
    /\ read_file(files, res[p].git_path) = Ok(call[p].content.val)

(* C30: two concurrent creates of titles that generate the same filename   *)
(* under the same category, both successful, return distinct paths, and    *)
(* the index and the storage then hold both documents, each with the       *)
(* content of its own create.                                              *)
C30_ConcurrentCreatesDistinct ==
    \A p \in Procs, q \in Procs :
        C30_BothCreated(p, q) =>
            /\ res[p].git_path # res[q].git_path
            /\ C30_Holds(p)
            /\ C30_Holds(q)


(***************************************************************************)
(* C31: caller p has returned from a successful delete of a path and       *)
(* caller q from a successful update of the same path that kept the path   *)
(***************************************************************************)
C31_DeletedAndUpdated(p, q) ==
    /\ Succeeded(p, "delete")
    /\ Succeeded(q, "update")
    /\ call[q].git_path = call[p].git_path
    /\ call[q].content.some
    /\ res[q].git_path = call[q].git_path

(* C31: when a delete of a path and an in-place update of the same path    *)
(* run concurrently and both succeed, the path is afterwards in neither    *)
(* the index nor the storage.                                              *)
C31_DeleteWins ==
    \A p \in Procs, q \in Procs :
        C31_DeletedAndUpdated(p, q) =>
            /\ call[p].git_path \notin DOMAIN recipes
            /\ generate_recipe_id(call[p].git_path) \notin DOMAIN id_to_path
            /\ ~ file_exists(files, call[p].git_path)


(***************************************************************************)
(* C32: callers p and q have both returned from a successful update of the *)
(* same document, each to a title of its own that renamed it               *)
(***************************************************************************)
C32_BothRenamed(p, q) ==
    /\ p # q
    /\ Succeeded(p, "update")
    /\ Succeeded(q, "update")
    /\ call[p].git_path = call[q].git_path
    /\ res[p].git_path # call[p].git_path
    /\ res[q].git_path # call[q].git_path
    /\ res[p].name # res[q].name

(* C32: an update does not change the number of documents: after two       *)
(* concurrent updates have renamed the one document to two titles, the     *)
(* index and the storage hold exactly one document each.                   *)
C32_OneDocumentAfterRenames ==
    \A p \in Procs, q \in Procs :
        (C32_BothRenamed(p, q) /\ Cardinality(DOMAIN pre[p].recipes) = 1
                              /\ Cardinality(DOMAIN pre[q].recipes) = 1) =>
            /\ Cardinality(DOMAIN recipes) = 1
            /\ Cardinality(discover_files(files)) = 1


(***************************************************************************)
(* C33: every caller is outside of a call, so every index insert and       *)
(* remove that was started has completed                                   *)
(***************************************************************************)
C33_Completed == \A p \in Procs : pc[p] \in {"idle", "returned"}

C33_RecordIds == {recipes[git_path].recipe_id : git_path \in DOMAIN recipes}

(* C33: once concurrent index inserts and removes of the same path have    *)
(* completed, the reverse map has an entry for an id exactly when the      *)
(* forward map holds a record with that id.                                *)
C33_ReverseMatchesForward ==
    C33_Completed => DOMAIN id_to_path = C33_RecordIds


(***************************************************************************)
(* C34: caller w is inside a manual rebuild and the storage is as it was   *)
(* when the rebuild started                                                *)
(***************************************************************************)
C34_Rebuilding(w) ==
    /\ call[w].op = "rebuild"
    /\ pc[w] \notin {"idle", "returned"}
    /\ files = pre[w].files

\* the documents that were indexed when the rebuild started and whose files parse
C34_Documents(w) ==
    {git_path \in DOMAIN pre[w].recipes :
        /\ file_exists(files, git_path)
        /\ parse_recipe(files[fs_path(git_path)],
                        rebuild_name(files[fs_path(git_path)], git_path)).ok}

C34_Visible(git_path) ==
    /\ cache_get(git_path).some
    /\ get_recipe_git_path(id_to_path, generate_recipe_id(git_path)) = Some(git_path)
    /\ git_path \in list_all(recipes)

(* C34: while a manual rebuild runs next to readers, a document that is in *)
(* storage and parses throughout the rebuild stays visible to a point      *)
(* lookup, to the resolution of its id and to list_all in every            *)
(* intermediate state.                                                     *)
C34_StaysVisible ==
    \A w \in Procs :
        C34_Rebuilding(w) => \A git_path \in C34_Documents(w) : C34_Visible(git_path)


(***************************************************************************)
(* C35: a successful create never replaces the content of a file that was  *)
(* in the storage before the call, whether the index knew the file or not: *)
(* the file at the returned path did not exist when the call started, and  *)
(* every file that did exist has the content it had.                       *)
(***************************************************************************)
C35_CreateKeepsFiles ==
    \A p \in Procs :
        Succeeded(p, "create") =>
            /\ ~ file_exists(pre[p].files, res[p].git_path)
            /\ \A f \in DOMAIN pre[p].files : f \in DOMAIN files /\ files[f] = pre[p].files[f]


(***************************************************************************)
(* C36                                                                     *)
(***************************************************************************)
\* a successful update of a document that had a category when the call began
C36_UpdatedCategorized(p) ==
    /\ Succeeded(p, "update")
    /\ call[p].git_path \in DOMAIN pre[p].recipes
    /\ pre[p].recipes[call[p].git_path].category.some

\* C36: every successful update of a document whose current category is not
\* none returns a record whose category is not none and leaves such a record
\* in the index under the returned path; when the category argument is absent
\* or an explicit "no category", that category is the current one.
C36_UpdateKeepsCategorized ==
    \A p \in Procs :
        C36_UpdatedCategorized(p) =>
            LET current == pre[p].recipes[call[p].git_path] IN
            /\ res[p].category.some
            /\ res[p].git_path \in DOMAIN recipes
            /\ recipes[res[p].git_path].category.some
            /\ ~ (call[p].category.given /\ call[p].category.cat.some)
                   => /\ res[p].category = current.category
                      /\ recipes[res[p].git_path].category = current.category

\* an update with an explicit "no category" of a document in category x
\* succeeded and the document is still in category x
C36_Witness ==
    \E p \in Procs :
        /\ C36_UpdatedCategorized(p)
        /\ call[p].category = Given(None)
        /\ pre[p].recipes[call[p].git_path].category = Some(CatX)
        /\ res[p].category = Some(CatX)
        /\ extract_category_from_path(res[p].git_path) = Some(CatX)


(***************************************************************************)
(* C37                                                                     *)
(***************************************************************************)
\* the call of p is inside the loop of generate_git_path_from_filename
C37_InLoop(p) == pc[p] \in {"c_gen", "u_gen"}

\* the step with which the loop of p ends
C37_LoopExit(p) == C37_InLoop(p) /\ pc'[p] \notin {"c_gen", "u_gen"}

\* C37: with one caller, and so no insert by anyone else while the loop
\* runs, a create or a renaming update that has entered the
\* collision-resolution loop leaves it, and the path it leaves with is absent
\* from the index: it is the unsuffixed path or the first suffixed path, from
\* -2 upwards, that the index does not hold.
C37_LoopTerminatesOnFreePath ==
    /\ [][\A p \in Procs :
            C37_LoopExit(p) =>
                /\ ~ path_taken(loc[p].path)
                /\ loc[p].path = FirstFreePath(loc[p].new_filename,
                                               loc[p].new_category, recipes)
                /\ loc'[p].path = loc[p].path
                /\ recipes' = recipes]_vars
    /\ \A p \in Procs : C37_InLoop(p) ~> ~ C37_InLoop(p)

\* a renaming update left the loop with the suffix -3 or above: the
\* unsuffixed path and the path with suffix -2 were both in the index
C37_Witness ==
    \E p \in Procs :
        /\ pc[p] = "u_write"
        /\ loc[p].counter >= 4
        /\ format_git_path(loc[p].new_filename, loc[p].new_category) \in DOMAIN recipes
        /\ suffixed_git_path(loc[p].new_filename, loc[p].new_category, 2) \in DOMAIN recipes
        /\ loc[p].path \notin DOMAIN recipes


(***************************************************************************)
(* C38                                                                     *)
(***************************************************************************)
C38_ReadOnly == {"read", "list_all", "search_by_name", "list_by_category",
                 "get_categories", "get_recipe_git_path"}

\* a step of a call of p to one of the read-only operations: its start, a
\* step in between, or its return
C38_ReadOnlyStep(p) ==
    /\ call'[p].op \in C38_ReadOnly
    /\ <<pc[p], call[p], res[p], ev[p]>> # <<pc'[p], call'[p], res'[p], ev'[p]>>

\* C38: no step of read, list_all, search_by_name, list_by_category,
\* get_categories or get_recipe_git_path changes the forward map, the reverse
\* map or the storage, whether the call returns a result or an error and
\* whatever another caller is doing meanwhile.
C38_QueriesChangeNothing ==
    [][\A p \in Procs :
          C38_ReadOnlyStep(p) => UNCHANGED <<recipes, id_to_path, files, repo>>]_vars

\* a read has failed on a record whose file is gone, and the record is
\* still in the index; the other caller's delete is still on its way
C38_Witness ==
    \E p \in Procs :
        /\ Returned(p, "read")
        /\ res[p].status = "err"
        /\ res[p].err = "Io"
        /\ call[p].git_path \in DOMAIN recipes
        /\ ~ file_exists(files, call[p].git_path)

====
